---- MODULE Spec2Model ----
(***************************************************************************)
(* AmberPipeline runtime asset subsystem: the resource manager             *)
(* (cpp/src/ResourceManager.cpp), the package files it mounts and the      *)
(* asset packer (cpp/tools/AssetPacker.cpp) that writes them.              *)
(*                                                                         *)
(* A 32-bit unsigned value (AssetID, FNV hash) is the pair <<hi, lo>> of   *)
(* its 16-bit halves, so that arithmetic modulo 2^32 stays inside TLC's    *)
(* integers.                                                               *)
(***************************************************************************)
EXTENDS Integers, Sequences, FiniteSets, TLC

----------------------------------------------------------------------------
(* Bounds of the model.                                                    *)

\* referenceCount is capped by the guards of the operations that raise it
MaxRef == 2
\* number of hot-reload subscribers RegisterHotReloadCallback may append
MaxSubs == 1
MaxPacked == 2

----------------------------------------------------------------------------
(* 32-bit arithmetic on <<hi, lo>> pairs.                                   *)

Half == 65536

RECURSIVE XorBits(_, _, _)
\* bitwise exclusive-or of the n low bits of a and b
XorBits(a, b, n) ==
    IF n = 0 THEN 0
    ELSE (((a % 2) + (b % 2)) % 2) + 2 * XorBits(a \div 2, b \div 2, n - 1)

U32(hi, lo) == <<hi, lo>>
U32Xor(x, y) == <<XorBits(x[1], y[1], 16), XorBits(x[2], y[2], 16)>>

\* static_cast<uint32_t>(char c): sign extension when char is signed
CharToU32(c, charSigned) ==
    IF charSigned /\ c >= 128 THEN <<65535, 65280 + c>> ELSE <<0, c>>

\* hash *= FNV_PRIME modulo 2^32, FNV_PRIME = 16777619 = 2^24 + 403
FnvPrimeLow == 403
U32MulFnvPrime(x) ==
    LET lo403 == x[2] * FnvPrimeLow
        hi403 == x[1] * FnvPrimeLow
        shl24 == (x[2] % 256) * 256
    IN  <<(hi403 + (lo403 \div Half) + shl24) % Half, lo403 % Half>>

\* FNV_OFFSET = 2166136261 = 0x811C9DC5
FnvOffsetHi == 33052
FnvOffsetLo == 40389

RECURSIVE FnvFold(_, _, _)
FnvFold(hash, name, charSigned) ==
    IF name = <<>> THEN hash
    ELSE FnvFold(U32MulFnvPrime(U32Xor(hash, CharToU32(Head(name), charSigned))),
                 Tail(name), charSigned)

\* ResourceManager::GenerateAssetID; char is signed on the builds modelled
GenerateAssetID(resourceName) ==
    FnvFold(U32(FnvOffsetHi, FnvOffsetLo), resourceName, TRUE)

InvalidID == U32(0, 0)

----------------------------------------------------------------------------
(* ResourceTypes.h: enumerations and the on-disk records.                   *)

UNKNOWN == 0
TEXTURE_2D == 1
MODEL == 3
MATERIAL == 4
SHADER == 5
SOUND == 6
ANIMATION == 7
PARTICLE_SYSTEM == 8
SCRIPT == 9

NONE == 0
DEFLATE == 1
LZ4 == 2

\* sizeof(ResourcePackageHeader): 8 + 4 + 4 + 8 + 8 + 4 + 16, padded to 8 bytes
SizeofHeader == 56
\* sizeof(ResourceMetadata): 4 + 4 + 8 + 8 + 256 + 4 + 4 + 8 + 32 + 16
SizeofMetadata == 344

\* the 8 bytes "AMBPKG01" the manager compares the header magic with
MagicAMBPKG01 == <<65, 77, 66, 80, 75, 71, 48, 49>>

ResourceMetadata(id, type, offset, size, name, compressionType, originalSize) ==
    [id |-> id, type |-> type, offset |-> offset, size |-> size, name |-> name,
     flags |-> 0, compressionType |-> compressionType, originalSize |-> originalSize]

DataStart(resourceCount) == SizeofHeader + resourceCount * SizeofMetadata

\* a package file: the header fields the manager reads, the metadata table and
\* the bytes that follow the table (the payload region)
PackageFile(magic, records, payload) ==
    [magic |-> magic, version |-> 1, resourceCount |-> Len(records),
     totalSize |-> DataStart(Len(records)) + Len(payload),
     records |-> records, payload |-> payload, exists |-> TRUE]

\* seekg(offset) then read(size) on the package file: good() only when all
\* size bytes lie inside the file
ReadAt(file, offset, size) ==
    LET start == offset - DataStart(file.resourceCount)
    IN  IF start >= 0 /\ start + size <= Len(file.payload)
        THEN [good |-> TRUE, bytes |-> SubSeq(file.payload, start + 1, start + size)]
        ELSE [good |-> FALSE, bytes |-> <<>>]

----------------------------------------------------------------------------
(* zlib, an external collaborator, stands as a run-length codec: a stream  *)
(* is a list of <<count, value>> pairs closed by the end marker 0.         *)

Z_STREAM_END == "Z_STREAM_END"
Z_BUF_ERROR == "Z_BUF_ERROR"
Z_DATA_ERROR == "Z_DATA_ERROR"

RECURSIVE Repeat(_, _)
Repeat(v, n) == IF n = 0 THEN <<>> ELSE <<v>> \o Repeat(v, n - 1)

RECURSIVE InflateFrom(_, _, _)
\* inflate(&stream, Z_FINISH) into a buffer of avail_out bytes
InflateFrom(stream, out, availOut) ==
    IF stream = <<>> THEN [result |-> Z_BUF_ERROR, out |-> out]
    ELSE IF Head(stream) = 0 THEN [result |-> Z_STREAM_END, out |-> out]
    ELSE IF Len(stream) < 2 THEN [result |-> Z_BUF_ERROR, out |-> out]
    ELSE IF Head(stream) > 8 THEN [result |-> Z_DATA_ERROR, out |-> out]
    ELSE IF Len(out) + Head(stream) > availOut THEN [result |-> Z_BUF_ERROR, out |-> out]
    ELSE InflateFrom(Tail(Tail(stream)), out \o Repeat(stream[2], Head(stream)), availOut)

inflate(stream, availOut) == InflateFrom(stream, <<>>, availOut)

----------------------------------------------------------------------------
(* The state.                                                              *)

VARIABLES
    relock,                  \* what locking m_mutex does on the thread that holds it
    fs,                      \* the file system: package path -> file or NoFile
    m_initialized,
    m_resourceRootPath,
    m_nameToIdMap,           \* resource name -> AssetID
    m_resources,             \* AssetID -> ResourceItem
    m_packageToResourcesMap, \* package path -> sequence of AssetID
    m_hotReloadCallbacks,    \* sequence of subscribers
    m_totalMemoryUsage,      \* size_t, kept as its signed residue modulo 2^64
    mutex,                   \* "free" or "held"
    proc,                    \* "running", "hung" (blocked for ever) or "crashed"
    packer,                  \* the AssetPacker object of the packing tool
    server,                  \* the ResourceSyncServer object, its threads and its peers
    last                     \* the last call: operation, arguments, outcome

vars == <<relock, fs, m_initialized, m_resourceRootPath, m_nameToIdMap, m_resources,
          m_packageToResourcesMap, m_hotReloadCallbacks, m_totalMemoryUsage,
          mutex, proc, packer, server, last>>

NoFile == [magic |-> <<>>, version |-> 0, resourceCount |-> 0, totalSize |-> 0,
           records |-> <<>>, payload |-> <<>>, exists |-> FALSE]

Range(seq) == {seq[i] : i \in DOMAIN seq}

\* std::mutex::lock by the owning thread is undefined: the lock is a no-op
\* (single-threaded runtime), it blocks for ever, or it throws system_error
RelockOutcomes == {"proceed", "deadlock", "throw"}

\* the other undefined behaviour an operation can meet, resolved per call: the
\* range-for of unmount_all once its element is erased (it goes on over the
\* rest, ends, or crashes; first: the element the iteration starts with), and
\* the bytes of a buffer that was never written
Paths == {"p1", "p2"}
IterChoices == [iter : {"continue", "stop", "crash"}, first : Paths, uninit : {0}]
UninitChoices == [iter : {"continue"}, first : {"p1"}, uninit : {0, 255}]
NoUB == [iter |-> "continue", first |-> "p1", uninit |-> 0]

\* the manager's registry while an operation runs; ctl is "run" until the call
\* blocks ("hang"), an exception unwinds it ("throw") or the process dies ("crash")
Mgr == [resources |-> m_resources, nameToId |-> m_nameToIdMap,
        packages |-> m_packageToResourcesMap, callbacks |-> m_hotReloadCallbacks,
        total |-> m_totalMemoryUsage, initialized |-> m_initialized,
        root |-> m_resourceRootPath,
        ctl |-> "run", relocked |-> FALSE, calls |-> <<>>, loadCalls |-> <<>>,
        ret |-> "void", retId |-> InvalidID]

\* a return statement: reached only while the call is still running
Return(M, ret) == IF M.ctl # "run" THEN M ELSE [M EXCEPT !.ret = ret]
ReturnId(M, id) ==
    IF M.ctl # "run" THEN M
    ELSE [M EXCEPT !.retId = id, !.ret = IF id = InvalidID THEN "zero" ELSE "id"]

\* std::lock_guard<std::mutex> lock(m_mutex); held: the caller already owns it
Lock(M, held) ==
    IF M.ctl # "run" \/ ~held THEN M
    ELSE IF relock = "proceed" THEN [M EXCEPT !.relocked = TRUE]
    ELSE [M EXCEPT !.relocked = TRUE,
                   !.ctl = IF relock = "deadlock" THEN "hang" ELSE "throw"]

\* delete[] static_cast<uint8_t*>(data) of a non-null pointer; deleting a
\* buffer twice corrupts the heap: the allocator aborts, and the model of the
\* process ends there ("crash")
DeleteArray(M, id, ub) ==
    IF M.resources[id].ptr = "dangling" THEN [M EXCEPT !.ctl = "crash"] ELSE M

----------------------------------------------------------------------------
(* ResourceManager member functions, as functions of the registry M.       *)
(* held: the calling code already owns m_mutex.                            *)

\* what LoadResourcePackage stores for a metadata record
NewResourceItem(metadata) ==
    [metadata |-> metadata, ptr |-> "null", bytes |-> <<>>, dataSize |-> 0,
     status |-> "UNLOADED", referenceCount |-> 0]

AddResourceRef(M, held, id) ==
    LET M1 == Lock(M, held)
    IN  IF M1.ctl # "run" THEN M1
        ELSE IF id \in DOMAIN M1.resources
        THEN [M1 EXCEPT !.resources[id].referenceCount = @ + 1]
        ELSE M1

GetResource(M, held, id) ==
    LET M1 == Lock(M, held)
    IN  IF M1.ctl # "run" THEN M1
        ELSE IF id \in DOMAIN M1.resources /\ M1.resources[id].status = "LOADED"
        THEN Return(M1, "pointer")
        ELSE Return(M1, "nullptr")

\* ReleaseResource dropping the last reference without line 303, the
\* adjustment of m_totalMemoryUsage
ReleaseResourceKeepsTotal(M, held, id, ub) ==
    LET M1 == Lock(M, held)
    IN  IF M1.ctl # "run" THEN M1
        ELSE IF id \notin DOMAIN M1.resources THEN M1
        ELSE IF M1.resources[id].referenceCount = 0 THEN M1
        ELSE
          LET M2 == [M1 EXCEPT !.resources[id].referenceCount = @ - 1]
              it == M2.resources[id]
          IN  IF it.referenceCount = 0 /\ it.status = "LOADED"
              THEN [M2 EXCEPT !.resources[id].ptr = "null",
                              !.resources[id].bytes = <<>>,
                              !.resources[id].status = "UNLOADED"]
              ELSE M2

ReleaseResource(M, held, id, ub) ==
    LET M1 == Lock(M, held)
    IN  IF M1.ctl # "run" THEN M1
        ELSE IF id \notin DOMAIN M1.resources THEN M1
        ELSE IF M1.resources[id].referenceCount = 0 THEN M1
        ELSE
          LET M2 == [M1 EXCEPT !.resources[id].referenceCount = @ - 1]
              it == M2.resources[id]
          IN  IF it.referenceCount = 0 /\ it.status = "LOADED"
              THEN IF it.ptr # "null"
                   THEN LET M3 == DeleteArray(M2, id, ub)
                        IN  IF M3.ctl # "run" THEN M3
                            ELSE [M3 EXCEPT !.resources[id].ptr = "null",
                                            !.resources[id].bytes = <<>>,
                                            !.resources[id].status = "UNLOADED",
                                            !.total = @ - it.dataSize]
                   ELSE [M2 EXCEPT !.resources[id].status = "UNLOADED"]
              ELSE M2

DecompressResourceData(item, compressedData, compressedSize, ub) ==
    CASE item.metadata.compressionType = NONE ->
           [ok |-> TRUE, bytes |-> compressedData, dataSize |-> compressedSize]
      [] item.metadata.compressionType = DEFLATE ->
           LET originalSize == item.metadata.originalSize
               z == inflate(compressedData, originalSize)
           IN  IF z.result # Z_STREAM_END
               THEN [ok |-> FALSE, bytes |-> <<>>, dataSize |-> 0]
               ELSE [ok |-> TRUE,
                     bytes |-> z.out \o Repeat(ub.uninit, originalSize - Len(z.out)),
                     dataSize |-> originalSize]
      [] OTHER -> [ok |-> FALSE, bytes |-> <<>>, dataSize |-> 0]

\* the packages whose id list holds the id the search of lines 452-458 looks for
PackagesListing(M, id) == {p \in DOMAIN M.packages : id \in Range(M.packages[p])}

\* lines 451-463: the search uses the id field of the stored metadata
FindOwningPackage(M, item) ==
    LET found == PackagesListing(M, item.metadata.id)
    IN  IF found = {} THEN "" ELSE CHOOSE p \in found : TRUE

\* returns M with ret "true" or "false"; the item is resources[id]
LoadResourceFromPackage(M, id, ub) ==
    LET item == M.resources[id]
        actualPackagePath == FindOwningPackage(M, item)
    IN  IF actualPackagePath = "" THEN Return(M, "false")
        ELSE IF ~fs[actualPackagePath].exists THEN Return(M, "false")
        ELSE
          LET rd == ReadAt(fs[actualPackagePath], item.metadata.offset, item.metadata.size)
          IN  IF ~rd.good THEN Return(M, "false")
              ELSE
                LET d == DecompressResourceData(item, rd.bytes, item.metadata.size, ub)
                IN  IF ~d.ok THEN Return(M, "false")
                    ELSE Return([M EXCEPT !.resources[id].ptr = "live",
                                          !.resources[id].bytes = d.bytes,
                                          !.resources[id].dataSize = d.dataSize,
                                          !.total = @ + d.dataSize], "true")

\* LoadResource without the type test of lines 228-231
LoadResourceAnyType(M, held, resourceName, type, ub) ==
    LET M1 == Lock(M, held)
    IN  IF M1.ctl # "run" THEN M1
        ELSE IF resourceName \notin DOMAIN M1.nameToId THEN ReturnId(M1, InvalidID)
        ELSE
          LET id == M1.nameToId[resourceName]
          IN  IF id \notin DOMAIN M1.resources THEN ReturnId(M1, InvalidID)
              ELSE IF M1.resources[id].status = "LOADED"
              THEN ReturnId(AddResourceRef(M1, TRUE, id), id)
              ELSE
                LET M2 == LoadResourceFromPackage(M1, id, ub)
                IN  IF M2.ret = "false" THEN ReturnId(M2, InvalidID)
                    ELSE ReturnId(
                           AddResourceRef([M2 EXCEPT !.resources[id].status = "LOADED"],
                                          TRUE, id), id)

LoadResource(M, held, resourceName, type, ub) ==
    LET M1 == Lock(M, held)
    IN  IF M1.ctl # "run" THEN M1
        ELSE IF resourceName \notin DOMAIN M1.nameToId THEN ReturnId(M1, InvalidID)
        ELSE
          LET id == M1.nameToId[resourceName]
          IN  IF id \notin DOMAIN M1.resources THEN ReturnId(M1, InvalidID)
              ELSE IF M1.resources[id].metadata.type # type THEN ReturnId(M1, InvalidID)
              ELSE IF M1.resources[id].status = "LOADED"
              THEN ReturnId(AddResourceRef(M1, TRUE, id), id)
              ELSE
                LET M2 == LoadResourceFromPackage(M1, id, ub)
                IN  IF M2.ret = "false" THEN ReturnId(M2, InvalidID)
                    ELSE ReturnId(
                           AddResourceRef([M2 EXCEPT !.resources[id].status = "LOADED"],
                                          TRUE, id), id)

Without(f, k) == [x \in DOMAIN f \ {k} |-> f[x]]

\* lines 251-261: the load runs in the calling thread; the callback, when one
\* is given ("none": an empty std::function), is then called with the id and
\* LOADED or FAILED
LoadResourceAsync(M, held, resourceName, type, callback, ub) ==
    LET M1 == LoadResource(M, held, resourceName, type, ub)
    IN  IF M1.ctl # "run" \/ callback = "none" THEN M1
        ELSE [M1 EXCEPT !.loadCalls =
                 Append(@, [id |-> M1.retId,
                            status |-> IF M1.retId # InvalidID THEN "LOADED"
                                       ELSE "FAILED"])]

\* NotifyHotReload, lines 520-527; a "reenter" subscriber calls GetResource(id)
RECURSIVE NotifyFrom(_, _, _, _)
NotifyFrom(M, i, id, held) ==
    IF M.ctl # "run" \/ i > Len(M.callbacks) THEN M
    ELSE
      LET M1 == [M EXCEPT !.calls = Append(@, [sub |-> i, id |-> id, mutexHeld |-> held])]
          M2 == IF M.callbacks[i] = "reenter"
                THEN [GetResource(M1, held, id) EXCEPT !.ret = M1.ret]
                ELSE M1
      IN  NotifyFrom(M2, i + 1, id, held)

\* NotifyHotReload going over the subscriber list a second time
NotifyHotReloadTwice(M, id, held) == NotifyFrom(NotifyFrom(M, 1, id, held), 1, id, held)

NotifyHotReload(M, id, held) == NotifyFrom(M, 1, id, held)

\* ReloadResource without line 328 (status = UNLOADED before the load path)
ReloadResourceKeepsStatus(M, held, id, ub) ==
    LET M1 == Lock(M, held)
    IN  IF M1.ctl # "run" THEN M1
        ELSE IF id \notin DOMAIN M1.resources THEN Return(M1, "false")
        ELSE
          LET refCount == M1.resources[id].referenceCount
              M2 == IF M1.resources[id].ptr # "null"
                    THEN LET D == DeleteArray(M1, id, ub)
                         IN  IF D.ctl # "run" THEN D
                             ELSE [D EXCEPT !.resources[id].ptr = "null",
                                            !.resources[id].bytes = <<>>,
                                            !.total = @ - M1.resources[id].dataSize]
                    ELSE M1
          IN  IF M2.ctl # "run" THEN M2
              ELSE
                LET M3 == LoadResourceFromPackage(M2, id, ub)
                IN  IF M3.ret = "false" THEN M3
                    ELSE Return(
                           NotifyHotReload(
                             [M3 EXCEPT !.resources[id].status = "LOADED",
                                        !.resources[id].referenceCount = refCount],
                             id, TRUE),
                           "true")

ReloadResource(M, held, id, ub) ==
    LET M1 == Lock(M, held)
    IN  IF M1.ctl # "run" THEN M1
        ELSE IF id \notin DOMAIN M1.resources THEN Return(M1, "false")
        ELSE
          LET refCount == M1.resources[id].referenceCount
              M2 == IF M1.resources[id].ptr # "null"
                    THEN LET D == DeleteArray(M1, id, ub)
                         IN  IF D.ctl # "run" THEN D
                             ELSE [D EXCEPT !.resources[id].ptr = "null",
                                            !.resources[id].bytes = <<>>,
                                            !.total = @ - M1.resources[id].dataSize]
                    ELSE M1
          IN  IF M2.ctl # "run" THEN M2
              ELSE
                LET M3 == LoadResourceFromPackage(
                            [M2 EXCEPT !.resources[id].status = "UNLOADED"], id, ub)
                IN  IF M3.ret = "false" THEN M3
                    ELSE Return(
                           NotifyHotReload(
                             [M3 EXCEPT !.resources[id].status = "LOADED",
                                        !.resources[id].referenceCount = refCount],
                             id, TRUE),
                           "true")

\* GetResourceName, lines 362-371: the lock it takes is all that acts on M
GetResourceName(M, held, id) == Lock(M, held)

\* the loop body without lines 172-178: a referenced item is left as it is
UnloadOneKeepsReferenced(M, id, ub) ==
    IF id \notin DOMAIN M.resources THEN M
    ELSE
      LET it == M.resources[id]
      IN  IF it.referenceCount > 0 THEN M
          ELSE
            LET M1 == IF it.ptr = "null" THEN M
                      ELSE [M EXCEPT !.resources[id].ptr = "dangling",
                                     !.resources[id].bytes = <<>>,
                                     !.total = @ - it.dataSize]
                M2 == GetResourceName(M1, TRUE, id)
            IN  IF M2.ctl # "run" THEN M2
                ELSE [M2 EXCEPT !.nameToId = IF it.metadata.name \in DOMAIN @
                                             THEN Without(@, it.metadata.name) ELSE @,
                                !.resources = Without(@, id)]

\* the loop body without lines 186-190: the name mapping of an erased item
\* stays
UnloadOneKeepsName(M, id, ub) ==
    IF id \notin DOMAIN M.resources THEN M
    ELSE
      LET it == M.resources[id]
      IN  IF it.referenceCount > 0
          THEN
            LET M1 == [M EXCEPT !.resources[id].status = "UNLOADED"]
            IN  IF it.ptr = "null" THEN M1
                ELSE LET D == DeleteArray(M1, id, ub)
                     IN  IF D.ctl # "run" THEN D
                         ELSE [D EXCEPT !.resources[id].ptr = "null",
                                        !.resources[id].bytes = <<>>,
                                        !.total = @ - it.dataSize]
          ELSE
            LET M1 == IF it.ptr = "null" THEN M
                      ELSE LET D == DeleteArray(M, id, ub)
                           IN  IF D.ctl # "run" THEN D
                               ELSE [D EXCEPT !.resources[id].ptr = "dangling",
                                              !.resources[id].bytes = <<>>,
                                              !.total = @ - it.dataSize]
                M2 == IF M1.ctl # "run" THEN M1 ELSE GetResourceName(M1, TRUE, id)
            IN  IF M2.ctl # "run" THEN M2
                ELSE [M2 EXCEPT !.resources = Without(@, id)]

\* the body of the loop of UnloadResourcePackage, lines 167-195
UnloadOne(M, id, ub) ==
    IF id \notin DOMAIN M.resources THEN M
    ELSE
      LET it == M.resources[id]
      IN  IF it.referenceCount > 0
          THEN
            LET M1 == [M EXCEPT !.resources[id].status = "UNLOADED"]
            IN  IF it.ptr = "null" THEN M1
                ELSE LET D == DeleteArray(M1, id, ub)
                     IN  IF D.ctl # "run" THEN D
                         ELSE [D EXCEPT !.resources[id].ptr = "null",
                                        !.resources[id].bytes = <<>>,
                                        !.total = @ - it.dataSize]
          ELSE
            LET M1 == IF it.ptr = "null" THEN M
                      ELSE LET D == DeleteArray(M, id, ub)
                           IN  IF D.ctl # "run" THEN D
                               ELSE [D EXCEPT !.resources[id].ptr = "dangling",
                                              !.resources[id].bytes = <<>>,
                                              !.total = @ - it.dataSize]
                M2 == IF M1.ctl # "run" THEN M1 ELSE GetResourceName(M1, TRUE, id)
            IN  IF M2.ctl # "run" THEN M2
                ELSE [M2 EXCEPT !.nameToId = IF it.metadata.name \in DOMAIN @
                                             THEN Without(@, it.metadata.name) ELSE @,
                                !.resources = Without(@, id)]

RECURSIVE UnloadIds(_, _, _)
UnloadIds(M, ids, ub) ==
    IF M.ctl # "run" \/ ids = <<>> THEN M
    ELSE UnloadIds(UnloadOne(M, Head(ids), ub), Tail(ids), ub)

UnloadResourcePackage(M, held, packagePath, ub) ==
    LET M1 == Lock(M, held)
    IN  IF M1.ctl # "run" THEN M1
        ELSE IF packagePath \notin DOMAIN M1.packages THEN Return(M1, "false")
        ELSE
          LET M2 == UnloadIds(M1, M1.packages[packagePath], ub)
          IN  IF M2.ctl # "run" THEN M2
              ELSE Return([M2 EXCEPT !.packages = Without(@, packagePath)], "true")

RECURSIVE UnloadPackages(_, _, _)
UnloadPackages(M, paths, ub) ==
    IF M.ctl # "run" \/ paths = {} THEN M
    ELSE LET p == CHOOSE q \in paths : TRUE
         IN  UnloadPackages(UnloadResourcePackage(M, TRUE, p, ub), paths \ {p}, ub)

\* lines 202-209: the range-for erases the element it stands on, after which
\* the iterator is invalid: the loop goes on over the rest, ends, or crashes
UnloadAllResourcePackages(M, held, ub) ==
    LET M1 == Lock(M, held)
    IN  IF M1.ctl # "run" \/ DOMAIN M1.packages = {} THEN Return(M1, "void")
        ELSE
          LET first == IF ub.first \in DOMAIN M1.packages THEN ub.first
                       ELSE CHOOSE q \in DOMAIN M1.packages : TRUE
              M2 == UnloadResourcePackage(M1, TRUE, first, ub)
          IN  IF M2.ctl # "run" THEN M2
              ELSE IF ub.iter = "crash" THEN [M2 EXCEPT !.ctl = "crash"]
              ELSE IF ub.iter = "stop" THEN Return(M2, "void")
              ELSE Return(UnloadPackages(M2, DOMAIN M2.packages, ub), "void")

\* the loop of UnloadUnusedResources without the referenceCount test of line 406
RECURSIVE UnloadUnusedAnyRef(_, _, _)
UnloadUnusedAnyRef(M, ids, ub) ==
    IF M.ctl # "run" \/ ids = {} THEN M
    ELSE
      LET id == CHOOSE x \in ids : TRUE
          it == M.resources[id]
          M1 == IF it.status = "LOADED"
                THEN IF it.ptr = "null"
                     THEN [M EXCEPT !.resources[id].status = "UNLOADED"]
                     ELSE LET D == DeleteArray(M, id, ub)
                          IN  IF D.ctl # "run" THEN D
                              ELSE [D EXCEPT !.resources[id].ptr = "null",
                                             !.resources[id].bytes = <<>>,
                                             !.resources[id].status = "UNLOADED",
                                             !.total = @ - it.dataSize]
                ELSE M
      IN  UnloadUnusedAnyRef(M1, ids \ {id}, ub)

\* the loop of UnloadUnusedResources, lines 405-418
RECURSIVE UnloadUnusedFrom(_, _, _)
UnloadUnusedFrom(M, ids, ub) ==
    IF M.ctl # "run" \/ ids = {} THEN M
    ELSE
      LET id == CHOOSE x \in ids : TRUE
          it == M.resources[id]
          M1 == IF it.referenceCount = 0 /\ it.status = "LOADED"
                THEN IF it.ptr = "null"
                     THEN [M EXCEPT !.resources[id].status = "UNLOADED"]
                     ELSE LET D == DeleteArray(M, id, ub)
                          IN  IF D.ctl # "run" THEN D
                              ELSE [D EXCEPT !.resources[id].ptr = "null",
                                             !.resources[id].bytes = <<>>,
                                             !.resources[id].status = "UNLOADED",
                                             !.total = @ - it.dataSize]
                ELSE M
      IN  UnloadUnusedFrom(M1, ids \ {id}, ub)

UnloadUnusedResources(M, held, ub) ==
    LET M1 == Lock(M, held)
    IN  IF M1.ctl # "run" THEN M1
        ELSE Return(UnloadUnusedFrom(M1, DOMAIN M1.resources, ub), "void")

\* the loop of UnloadAllResources without line 428, the status assignment
RECURSIVE UnloadAllKeepsStatus(_, _, _)
UnloadAllKeepsStatus(M, ids, ub) ==
    IF M.ctl # "run" \/ ids = {} THEN M
    ELSE
      LET id == CHOOSE x \in ids : TRUE
          M1 == IF M.resources[id].ptr = "null" THEN M
                ELSE LET D == DeleteArray(M, id, ub)
                     IN  IF D.ctl # "run" THEN D
                         ELSE [D EXCEPT !.resources[id].ptr = "null",
                                        !.resources[id].bytes = <<>>]
      IN  UnloadAllKeepsStatus(M1, ids \ {id}, ub)

RECURSIVE UnloadAllFrom(_, _, _)
UnloadAllFrom(M, ids, ub) ==
    IF M.ctl # "run" \/ ids = {} THEN M
    ELSE
      LET id == CHOOSE x \in ids : TRUE
          M1 == IF M.resources[id].ptr = "null" THEN M
                ELSE LET D == DeleteArray(M, id, ub)
                     IN  IF D.ctl # "run" THEN D
                         ELSE [D EXCEPT !.resources[id].ptr = "null",
                                        !.resources[id].bytes = <<>>,
                                        !.resources[id].status = "UNLOADED"]
      IN  UnloadAllFrom(M1, ids \ {id}, ub)

UnloadAllResources(M, held, ub) ==
    LET M1 == Lock(M, held)
    IN  IF M1.ctl # "run" THEN M1
        ELSE LET M2 == UnloadAllFrom(M1, DOMAIN M1.resources, ub)
             IN  IF M2.ctl # "run" THEN M2
                 ELSE Return([M2 EXCEPT !.total = 0], "void")

EmptyMap == [x \in {} |-> 0]

Shutdown(M, held, ub) ==
    LET M1 == Lock(M, held)
    IN  IF M1.ctl # "run" THEN M1
        ELSE IF ~M1.initialized THEN Return(M1, "void")
        ELSE
          LET M2 == UnloadAllResourcePackages(UnloadAllResources(M1, TRUE, ub), TRUE, ub)
          IN  IF M2.ctl # "run" THEN M2
              ELSE Return([M2 EXCEPT !.nameToId = EmptyMap, !.resources = EmptyMap,
                                     !.packages = EmptyMap, !.callbacks = <<>>,
                                     !.total = 0, !.initialized = FALSE], "void")

\* std::ifstream testDir(root).good(): the directories that exist
ExistingRoots == {"."}

\* Initialize storing the root path (line 49) ahead of the test of lines 44-46
InitializeStoresRootFirst(M, held, resourceRootPath) ==
    LET M1 == Lock(M, held)
    IN  IF M1.ctl # "run" THEN M1
        ELSE IF M1.initialized THEN Return([M1 EXCEPT !.root = resourceRootPath], "true")
        ELSE IF resourceRootPath \notin ExistingRoots
        THEN Return([M1 EXCEPT !.root = resourceRootPath], "false")
        ELSE Return([M1 EXCEPT !.root = resourceRootPath, !.initialized = TRUE], "true")

Initialize(M, held, resourceRootPath) ==
    LET M1 == Lock(M, held)
    IN  IF M1.ctl # "run" THEN M1
        ELSE IF M1.initialized THEN Return(M1, "true")
        ELSE IF resourceRootPath \notin ExistingRoots
        THEN Return([M1 EXCEPT !.root = resourceRootPath], "false")
        ELSE Return([M1 EXCEPT !.root = resourceRootPath, !.initialized = TRUE], "true")

\* the loop without the skip of lines 127-130: a record whose id is already
\* registered replaces the item
RECURSIVE RegisterRecordsReplacing(_, _, _)
RegisterRecordsReplacing(M, records, loaded) ==
    IF records = <<>> THEN [M |-> M, loaded |-> loaded]
    ELSE
      LET metadata == Head(records)
          id == GenerateAssetID(metadata.name)
      IN  RegisterRecordsReplacing(
            [M EXCEPT !.resources = (id :> NewResourceItem(metadata)) @@
                                    [r \in DOMAIN @ \ {id} |-> @[r]],
                      !.nameToId = (metadata.name :> id) @@
                                   [n \in DOMAIN @ \ {metadata.name} |-> @[n]]],
            Tail(records), Append(loaded, id))

\* the loop of LoadResourcePackage, lines 120-148; loaded: loadedResources
RECURSIVE RegisterRecords(_, _, _)
RegisterRecords(M, records, loaded) ==
    IF records = <<>> THEN [M |-> M, loaded |-> loaded]
    ELSE
      LET metadata == Head(records)
          id == GenerateAssetID(metadata.name)
      IN  IF id \in DOMAIN M.resources
          THEN RegisterRecords(M, Tail(records), loaded)
          ELSE RegisterRecords(
                 [M EXCEPT !.resources = (id :> NewResourceItem(metadata)) @@ @,
                           !.nameToId = (metadata.name :> id) @@
                                        [n \in DOMAIN @ \ {metadata.name} |-> @[n]]],
                 Tail(records), Append(loaded, id))

LoadResourcePackage(M, held, packagePath) ==
    LET M1 == Lock(M, held)
    IN  IF M1.ctl # "run" THEN M1
        ELSE IF ~M1.initialized THEN Return(M1, "false")
        ELSE IF ~fs[packagePath].exists THEN Return(M1, "false")
        ELSE IF fs[packagePath].magic # MagicAMBPKG01 THEN Return(M1, "false")
        ELSE
          LET r == RegisterRecords(M1, fs[packagePath].records, <<>>)
          IN  Return([r.M EXCEPT !.packages =
                        (packagePath :> r.loaded) @@
                        [q \in DOMAIN @ \ {packagePath} |-> @[q]]], "true")

RegisterHotReloadCallback(M, held, callback) ==
    LET M1 == Lock(M, held)
    IN  IF M1.ctl # "run" THEN M1
        ELSE Return([M1 EXCEPT !.callbacks = Append(@, callback)], "void")

----------------------------------------------------------------------------
(* AssetPacker (tools/AssetPacker.cpp). Source paths are character strings, *)
(* kept as sequences of character codes; P is the packer object.            *)

\* zlib's deflate in the stand-in codec: runs of at most 8 equal bytes
RECURSIVE RunLength(_, _, _)
RunLength(input, v, n) ==
    IF input # <<>> /\ Head(input) = v /\ n < 8 THEN RunLength(Tail(input), v, n + 1)
    ELSE [count |-> n, rest |-> input]

RECURSIVE deflate(_)
deflate(input) ==
    IF input = <<>> THEN <<0>>
    ELSE LET run == RunLength(Tail(input), Head(input), 1)
         IN  <<run.count, Head(input)>> \o deflate(run.rest)

\* DeflateCompress: deflateBound leaves room, so deflate ends with Z_STREAM_END
DeflateCompress(input, level) == deflate(input)

\* CompressResource, for the codec ProcessResource chooses
CompressResource(input, compressionType, level) ==
    IF compressionType = DEFLATE THEN DeflateCompress(input, level) ELSE input

\* strncpy(dst, src, n): n characters, padded with '\0' when src is shorter
strncpy(src, n) == [i \in 1..n |-> IF i <= Len(src) THEN src[i] ELSE 0]

\* a char buffer read as a C string: the characters before the first '\0'
RECURSIVE CString(_)
CString(buf) ==
    IF buf = <<>> \/ Head(buf) = 0 THEN <<>> ELSE <<Head(buf)>> \o CString(Tail(buf))

\* the position of the last occurrence of c in s, 0 when there is none
RECURSIVE FindLastOf(_, _)
FindLastOf(s, c) ==
    IF s = <<>> THEN 0
    ELSE IF s[Len(s)] = c THEN Len(s)
    ELSE FindLastOf(SubSeq(s, 1, Len(s) - 1), c)

\* fs::path(filePath).filename(): what follows the last '/'
Filename(filePath) == SubSeq(filePath, FindLastOf(filePath, 47) + 1, Len(filePath))

\* fs::path::extension(): from the last '.', unless the name only starts with it
Extension(filePath) ==
    LET fileName == Filename(filePath)
        dotPos == FindLastOf(fileName, 46)
    IN  IF dotPos <= 1 THEN <<>> ELSE SubSeq(fileName, dotPos, Len(fileName))

ToLower(s) == [i \in DOMAIN s |-> IF s[i] >= 65 /\ s[i] <= 90 THEN s[i] + 32 ELSE s[i]]

DetectResourceType(filePath) ==
    LET ext == ToLower(Extension(filePath))
    IN
      IF ext \in
         {<<46, 112, 110, 103>>,
          <<46, 106, 112, 103>>,
          <<46, 106, 112, 101, 103>>,
          <<46, 98, 109, 112>>,
          <<46, 116, 103, 97>>,
          <<46, 100, 100, 115>>,
          <<46, 107, 116, 120, 50>>}
      THEN TEXTURE_2D
      ELSE IF ext \in
         {<<46, 111, 98, 106>>,
          <<46, 102, 98, 120>>,
          <<46, 103, 108, 116, 102>>,
          <<46, 103, 108, 98>>,
          <<46, 109, 100, 108>>}
      THEN MODEL
      ELSE IF ext \in
         {<<46, 109, 97, 116>>,
          <<46, 109, 116, 108>>}
      THEN MATERIAL
      ELSE IF ext \in
         {<<46, 104, 108, 115, 108>>,
          <<46, 103, 108, 115, 108>>,
          <<46, 118, 101, 114, 116>>,
          <<46, 102, 114, 97, 103>>,
          <<46, 99, 111, 109, 112>>,
          <<46, 115, 104, 97, 100, 101, 114>>}
      THEN SHADER
      ELSE IF ext \in
         {<<46, 119, 97, 118>>,
          <<46, 109, 112, 51>>,
          <<46, 111, 103, 103>>,
          <<46, 102, 108, 97, 99>>}
      THEN SOUND
      ELSE IF ext \in
         {<<46, 97, 110, 105, 109>>,
          <<46, 97, 110, 105, 109, 97, 116, 105, 111, 110>>}
      THEN ANIMATION
      ELSE IF ext \in
         {<<46, 112, 97, 114, 116, 105, 99, 108, 101>>,
          <<46, 112, 115, 121, 115>>}
      THEN PARTICLE_SYSTEM
      ELSE IF ext \in
         {<<46, 108, 117, 97>>,
          <<46, 112, 121>>,
          <<46, 106, 115>>,
          <<46, 115, 99, 114, 105, 112, 116>>}
      THEN SCRIPT
      ELSE UNKNOWN

\* AssetPacker::GetResourceName: the file name up to its last '.'
PackerGetResourceName(filePath) ==
    LET fileName == Filename(filePath)
        dotPos == FindLastOf(fileName, 46)
    IN  IF dotPos # 0 THEN SubSeq(fileName, 1, dotPos - 1) ELSE fileName

\* the packer after its constructor
NewAssetPacker ==
    [outputPath |-> "", version |-> 1, compressionLevel |-> 0, overwrite |-> FALSE,
     metadataList |-> <<>>, resourceDataList |-> <<>>, processedFiles |-> <<>>,
     resourceNameToIdMap |-> EmptyMap, totalSize |-> 0, nextResourceId |-> 1,
     ret |-> "void"]

SetOutputPath(P, outputPath) == [P EXCEPT !.outputPath = outputPath]
SetOverwrite(P, overwrite) == [P EXCEPT !.overwrite = overwrite]

Max(a, b) == IF a > b THEN a ELSE b
Min(a, b) == IF a < b THEN a ELSE b
SetCompressionLevel(P, level) == [P EXCEPT !.compressionLevel = Max(0, Min(9, level))]

\* ProcessResource without line 264, the compression flag
ProcessResourceNoFlag(P, src, resourcePath, type) ==
    LET actualType == IF type = UNKNOWN THEN DetectResourceType(resourcePath) ELSE type
    IN  IF actualType = UNKNOWN THEN [P EXCEPT !.ret = "false"]
        ELSE IF ~src[resourcePath].exists THEN [P EXCEPT !.ret = "false"]
        ELSE
          LET resourceData == src[resourcePath].bytes
              fileSize == Len(resourceData)
              resourceName == PackerGetResourceName(resourcePath)
              known == resourceName \in DOMAIN P.resourceNameToIdMap
              id == IF known THEN P.resourceNameToIdMap[resourceName]
                    ELSE P.nextResourceId
              P1 == IF known THEN P
                    ELSE [P EXCEPT !.nextResourceId = @ + 1,
                                   !.resourceNameToIdMap = (resourceName :> id) @@ @]
              compressed == CompressResource(resourceData, DEFLATE, P.compressionLevel)
              useCompressed == /\ P.compressionLevel > 0
                               /\ compressed # <<>>
                               /\ Len(compressed) < fileSize
              finalData == IF useCompressed THEN compressed ELSE resourceData
              metadata ==
                  [ResourceMetadata(U32(id \div Half, id % Half), actualType, 0,
                                    Len(finalData),
                                    CString(strncpy(resourceName, 255) \o <<0>>),
                                    IF useCompressed THEN DEFLATE ELSE NONE, fileSize)
                     EXCEPT !.flags = 0]
          IN  [P1 EXCEPT !.metadataList = Append(@, metadata),
                         !.resourceDataList = Append(@, finalData),
                         !.processedFiles = Append(@, resourcePath),
                         !.ret = "true"]

\* src: the source tree, path -> [exists, bytes]
ProcessResource(P, src, resourcePath, type) ==
    LET actualType == IF type = UNKNOWN THEN DetectResourceType(resourcePath) ELSE type
    IN  IF actualType = UNKNOWN THEN [P EXCEPT !.ret = "false"]
        ELSE IF ~src[resourcePath].exists THEN [P EXCEPT !.ret = "false"]
        ELSE
          LET resourceData == src[resourcePath].bytes
              fileSize == Len(resourceData)
              resourceName == PackerGetResourceName(resourcePath)
              known == resourceName \in DOMAIN P.resourceNameToIdMap
              id == IF known THEN P.resourceNameToIdMap[resourceName]
                    ELSE P.nextResourceId
              P1 == IF known THEN P
                    ELSE [P EXCEPT !.nextResourceId = @ + 1,
                                   !.resourceNameToIdMap = (resourceName :> id) @@ @]
              compressed == CompressResource(resourceData, DEFLATE, P.compressionLevel)
              useCompressed == /\ P.compressionLevel > 0
                               /\ compressed # <<>>
                               /\ Len(compressed) < fileSize
              finalData == IF useCompressed THEN compressed ELSE resourceData
              metadata ==
                  [ResourceMetadata(U32(id \div Half, id % Half), actualType, 0,
                                    Len(finalData),
                                    CString(strncpy(resourceName, 255) \o <<0>>),
                                    IF useCompressed THEN DEFLATE ELSE NONE, fileSize)
                     EXCEPT !.flags = IF useCompressed THEN 1 ELSE 0]
          IN  [P1 EXCEPT !.metadataList = Append(@, metadata),
                         !.resourceDataList = Append(@, finalData),
                         !.processedFiles = Append(@, resourcePath),
                         !.ret = "true"]

AddResource(P, src, resourcePath, type) ==
    IF ~src[resourcePath].exists THEN [P EXCEPT !.ret = "false"]
    ELSE IF resourcePath \in Range(P.processedFiles) THEN [P EXCEPT !.ret = "false"]
    ELSE ProcessResource(P, src, resourcePath, type)

\* fs::is_directory: a path under which files of the source tree lie
IsPrefix(dir, path) ==
    Len(path) > Len(dir) + 1 /\ SubSeq(path, 1, Len(dir) + 1) = dir \o <<47>>
FilesUnder(src, directoryPath) ==
    {path \in DOMAIN src : src[path].exists /\ IsPrefix(directoryPath, path)}

\* the loop of AddResourceDirectory, lines 92-101
RECURSIVE ProcessEntries(_, _, _, _, _)
ProcessEntries(P, src, entries, type, success) ==
    IF entries = <<>> THEN [P EXCEPT !.ret = IF success THEN "true" ELSE "false"]
    ELSE LET P1 == ProcessResource(P, src, Head(entries), type)
         IN  ProcessEntries(P1, src, Tail(entries), type, success /\ P1.ret = "true")

\* entries: the regular files under the directory, in the order the
\* recursive_directory_iterator yields them
AddResourceDirectory(P, src, directoryPath, type, entries) ==
    IF FilesUnder(src, directoryPath) = {} THEN [P EXCEPT !.ret = "false"]
    ELSE ProcessEntries(P, src, entries, type, TRUE)

\* WritePackageHeader: the header as first written (total size and checksum
\* are filled in at the end of WriteResourceData)
WritePackageHeader(P) ==
    [magic |-> [strncpy(MagicAMBPKG01, 8) EXCEPT ![8] = 0],
     version |-> P.version,
     resourceCount |-> Len(P.metadataList),
     totalSize |-> 0]

RECURSIVE Flatten(_)
Flatten(chunks) == IF chunks = <<>> THEN <<>> ELSE Head(chunks) \o Flatten(Tail(chunks))

\* the loop of WriteResourceData without line 350, the advance of
\* currentOffset
RECURSIVE AssignOffsetsNoAdvance(_, _, _)
AssignOffsetsNoAdvance(metadataList, resourceDataList, currentOffset) ==
    IF metadataList = <<>> THEN <<>>
    ELSE <<[Head(metadataList) EXCEPT !.offset = currentOffset]>> \o
         AssignOffsetsNoAdvance(Tail(metadataList), Tail(resourceDataList), currentOffset)

\* the offsets the loop of WriteResourceData assigns, lines 338-351
RECURSIVE AssignOffsets(_, _, _)
AssignOffsets(metadataList, resourceDataList, currentOffset) ==
    IF metadataList = <<>> THEN <<>>
    ELSE <<[Head(metadataList) EXCEPT !.offset = currentOffset]>> \o
         AssignOffsets(Tail(metadataList), Tail(resourceDataList),
                       currentOffset + Len(Head(resourceDataList)))

\* reading back from the output stream: the code as written reads from a
\* std::ofstream, which has no read; built over a stream opened for output
\* only the read fails, built over a stream also opened for input it works
StreamReads == {"fails", "works"}

\* Pack opening the output file (line 135) ahead of the test of lines 120-123
PackTruncatesFirst(P, files, rb) ==
    IF P.metadataList = <<>> THEN [P |-> [P EXCEPT !.ret = "false"], files |-> files]
    ELSE IF P.outputPath = "" THEN [P |-> [P EXCEPT !.ret = "false"], files |-> files]
    ELSE IF files[P.outputPath].exists /\ ~P.overwrite
    THEN [P |-> [P EXCEPT !.ret = "false"],
          files |-> [files EXCEPT ![P.outputPath] =
                        [NoFile EXCEPT !.exists = TRUE]]]
    ELSE
      LET header == WritePackageHeader(P)
          records == AssignOffsets(P.metadataList, P.resourceDataList,
                                   DataStart(Len(P.metadataList)))
          payload == Flatten(P.resourceDataList)
          totalSize == DataStart(Len(P.metadataList)) + Len(payload)
          P1 == [P EXCEPT !.metadataList = records, !.totalSize = totalSize]
          written == [magic |-> header.magic, version |-> header.version,
                      resourceCount |-> header.resourceCount,
                      totalSize |-> IF rb = "works" THEN totalSize ELSE header.totalSize,
                      records |-> records, payload |-> payload, exists |-> TRUE]
      IN  [P |-> [P1 EXCEPT !.ret = IF rb = "works" THEN "true" ELSE "false"],
           files |-> [files EXCEPT ![P.outputPath] = written]]

\* Pack: returns the packer and what the output path holds afterwards
Pack(P, files, rb) ==
    IF P.metadataList = <<>> THEN [P |-> [P EXCEPT !.ret = "false"], files |-> files]
    ELSE IF P.outputPath = "" THEN [P |-> [P EXCEPT !.ret = "false"], files |-> files]
    ELSE IF files[P.outputPath].exists /\ ~P.overwrite
    THEN [P |-> [P EXCEPT !.ret = "false"], files |-> files]
    ELSE
      LET header == WritePackageHeader(P)
          records == AssignOffsets(P.metadataList, P.resourceDataList,
                                   DataStart(Len(P.metadataList)))
          payload == Flatten(P.resourceDataList)
          totalSize == DataStart(Len(P.metadataList)) + Len(payload)
          P1 == [P EXCEPT !.metadataList = records, !.totalSize = totalSize]
          written == [magic |-> header.magic, version |-> header.version,
                      resourceCount |-> header.resourceCount,
                      totalSize |-> IF rb = "works" THEN totalSize ELSE header.totalSize,
                      records |-> records, payload |-> payload, exists |-> TRUE]
      IN  [P |-> [P1 EXCEPT !.ret = IF rb = "works" THEN "true" ELSE "false"],
           files |-> [files EXCEPT ![P.outputPath] = written]]

\* CRC32_POLY = 0xEDB88320
Crc32PolyHi == 60856
Crc32PolyLo == 33568

\* the loop of CalculateChecksum over bytes[first..final], lines 416-425,
\* taken in halves, in order: each byte is XORed into the low bits of crc and
\* followed by eight shift steps, each XORing the polynomial in when the bit
\* shifted out is set (crc is read first, so that it is computed before the
\* loop goes on)
RECURSIVE Crc32Update(_, _, _, _)
Crc32Update(crc, bytes, first, final) ==
    LET Shift(c) ==
            LET shr == U32(c[1] \div 2, (c[1] % 2) * (Half \div 2) + c[2] \div 2)
            IN  IF c[2] % 2 = 1 THEN U32Xor(shr, U32(Crc32PolyHi, Crc32PolyLo)) ELSE shr
    IN  IF crc = <<>> \/ first > final THEN crc
        ELSE IF first = final
        THEN Shift(Shift(Shift(Shift(Shift(Shift(Shift(Shift(
                 U32(crc[1], XorBits(crc[2], bytes[first], 16))))))))))
        ELSE Crc32Update(Crc32Update(crc, bytes, first, (first + final) \div 2),
                         bytes, (first + final) \div 2 + 1, final)

\* AssetPacker::CalculateChecksum: crc starts at 0xFFFFFFFF, the result is ~crc
CalculateChecksum(data) ==
    LET crc == Crc32Update(U32(Half - 1, Half - 1), data, 1, Len(data))
    IN  U32(Half - 1 - crc[1], Half - 1 - crc[2])

\* the loop of CalculateHash, lines 439-442: 64-bit FNV-1a on four 16-bit
\* limbs, lowest first; FNV_PRIME_64 = 1099511628211 = 2^40 + 435
RECURSIVE Fnv64Fold(_, _)
Fnv64Fold(hash, data) ==
    IF data = <<>> THEN hash
    ELSE LET x == [hash EXCEPT ![1] = XorBits(@, Head(data), 16)]
             p1 == x[1] * 435
             p2 == x[2] * 435 + p1 \div Half
             p3 == x[3] * 435 + p2 \div Half
             p4 == x[4] * 435 + p3 \div Half
             s3 == (p3 % Half) + (x[1] % 256) * 256
             s4 == (p4 % Half) + (x[2] % 256) * 256 + x[1] \div 256 + s3 \div Half
         IN  Fnv64Fold(<<p1 % Half, p2 % Half, s3 % Half, s4 % Half>>, Tail(data))

\* AssetPacker::CalculateHash: the hash from FNV_OFFSET_64 =
\* 14695981039346656037 = 0xCBF29CE484222325, printed as 16 lower-case
\* hexadecimal digits and copied with strncpy into the 32-byte field
CalculateHash(data) ==
    LET hash == Fnv64Fold(<<8997, 33826, 40164, 52210>>, data)
        Digit(d) == IF d < 10 THEN 48 + d ELSE 87 + d
        Hex(limb) == <<Digit(limb \div 4096), Digit((limb \div 256) % 16),
                       Digit((limb \div 16) % 16), Digit(limb % 16)>>
    IN  strncpy(Hex(hash[4]) \o Hex(hash[3]) \o Hex(hash[2]) \o Hex(hash[1]), 32)

\* the 344 bytes of a ResourceMetadata as write() puts them in the file
\* (little-endian fields, no padding); finalData: the stored bytes the record
\* was appended with, of which line 278 left the hash in the record
SerializeMetadata(metadata, finalData) ==
    LET u32(x) == <<x[2] % 256, x[2] \div 256, x[1] % 256, x[1] \div 256>>
        u64(n) == u32(U32(n \div Half, n % Half)) \o <<0, 0, 0, 0>>
    IN  u32(metadata.id) \o u32(U32(0, metadata.type))
        \o u64(metadata.offset) \o u64(metadata.size)
        \o strncpy(metadata.name, 256)
        \o u32(U32(0, metadata.flags)) \o u32(U32(0, metadata.compressionType))
        \o u64(metadata.originalSize)
        \o CalculateHash(finalData)
        \o [i \in 1..16 |-> 0]

\* Pack summing the metadata table as WriteResourceMetadata first wrote it,
\* ahead of the rewrite of lines 357-369
PackChecksumsFirstTable(P, files, rb) ==
    LET r == Pack(P, files, rb)
        table == Flatten([i \in 1..Len(P.metadataList) |->
                            SerializeMetadata(P.metadataList[i], P.resourceDataList[i])])
        sum == IF rb = "works"
               THEN CalculateChecksum(table \o Flatten(P.resourceDataList))
               ELSE U32(0, 0)
    IN  IF \/ P.metadataList = <<>>
           \/ P.outputPath = ""
           \/ (files[P.outputPath].exists /\ ~P.overwrite)
        THEN r
        ELSE [r EXCEPT !.files[P.outputPath] = ("checksum" :> sum) @@ @]

\* Pack with the checksum field of the header kept in the file. The header
\* goes out with checksum 0 (memset, line 293); lines 371-404 read back what
\* follows the header, m_totalSize - sizeof(header) bytes: the table rewritten
\* with the offsets and the resource data, and write their sum into the header
PackChecksummed(P, files, rb) ==
    LET r == Pack(P, files, rb)
        table == Flatten([i \in 1..Len(r.P.metadataList) |->
                            SerializeMetadata(r.P.metadataList[i], P.resourceDataList[i])])
        sum == IF rb = "works"
               THEN CalculateChecksum(table \o Flatten(P.resourceDataList))
               ELSE U32(0, 0)
    IN  IF \/ P.metadataList = <<>>
           \/ P.outputPath = ""
           \/ (files[P.outputPath].exists /\ ~P.overwrite)
        THEN r
        ELSE [r EXCEPT !.files[P.outputPath] = ("checksum" :> sum) @@ @]

----------------------------------------------------------------------------
(* The inputs: names, ids, and the package files the file system can hold. *)

NameA == <<97>>
NameB == <<98>>
Names == {NameA, NameB}
IdA == GenerateAssetID(NameA)
IdB == GenerateAssetID(NameB)
Ids == {IdA, IdB}
Types == {TEXTURE_2D, SCRIPT}
RootPaths == {".", "missing"}
Subscribers == {"passive", "reenter"}

\* what AssetPacker::WritePackageHeader leaves in header.magic: "AMBPKG0\0"
MagicAsPacked == <<65, 77, 66, 80, 75, 71, 48, 0>>

\* p1: one record, "a", stored with DEFLATE (two bytes 7)
RecordA(id) == ResourceMetadata(id, SCRIPT, DataStart(1), 3, NameA, DEFLATE, 2)
FileA == PackageFile(MagicAMBPKG01, <<RecordA(IdA)>>, <<2, 7, 0>>)
\* FileA after its payload was edited on disk (two bytes 8)
FileAEdited == PackageFile(MagicAMBPKG01, <<RecordA(IdA)>>, <<2, 8, 0>>)
\* FileA with the end of the stream damaged
FileACorrupt == PackageFile(MagicAMBPKG01, <<RecordA(IdA)>>, <<2, 7, 9>>)
\* FileA cut short inside the payload
FileATruncated == PackageFile(MagicAMBPKG01, <<RecordA(IdA)>>, <<2, 7>>)
\* the id field as the packer assigns it: a counter from 1
FileACounterId == PackageFile(MagicAMBPKG01, <<RecordA(U32(0, 1))>>, <<2, 7, 0>>)
FileABadMagic == PackageFile(MagicAsPacked, <<RecordA(IdA)>>, <<2, 7, 0>>)

\* p2: "b" stored uncompressed, then another "a" stored with LZ4
RecordsB ==
    <<ResourceMetadata(IdB, TEXTURE_2D, DataStart(2), 1, NameB, NONE, 1),
      ResourceMetadata(IdA, SCRIPT, DataStart(2) + 1, 1, NameA, LZ4, 1)>>
FileB == PackageFile(MagicAMBPKG01, RecordsB, <<9, 4>>)

\* the files the packing tool is pointed at: "a.py" (four bytes 7, which the
\* codec shortens), "b.png" (one byte), "d/a.py" (the name "a" again) and "c"
\* (no extension); "z" does not exist
SrcA == <<97, 46, 112, 121>>
SrcB == <<98, 46, 112, 110, 103>>
SrcA2 == <<100, 47, 97, 46, 112, 121>>
SrcC == <<99>>
SrcMissing == <<122>>
SourcePaths == {SrcA, SrcB, SrcA2, SrcC, SrcMissing}
SourceTree ==
    [path \in SourcePaths |->
        CASE path = SrcA -> [exists |-> TRUE, bytes |-> <<7, 7, 7, 7>>]
          [] path = SrcB -> [exists |-> TRUE, bytes |-> <<9>>]
          [] path = SrcA2 -> [exists |-> TRUE, bytes |-> <<5, 6>>]
          [] path = SrcC -> [exists |-> TRUE, bytes |-> <<3>>]
          [] OTHER -> [exists |-> FALSE, bytes |-> <<>>]]
Levels == {0, 12}

\* FileA re-packed after "a" shrank to one byte 8
RecordAShorter == ResourceMetadata(IdA, SCRIPT, DataStart(1), 3, NameA, DEFLATE, 1)
FileAShorter == PackageFile(MagicAMBPKG01, <<RecordAShorter>>, <<1, 8, 0>>)

FilesAt(path) ==
    IF path = "p1"
    THEN {FileA, FileAEdited, FileAShorter, FileACorrupt, FileATruncated,
          FileACounterId, FileABadMagic, NoFile}
    ELSE {FileB}

----------------------------------------------------------------------------
(* The operations as actions: one call of a public function each.          *)

NoCall == [op |-> "none", path |-> "", name |-> <<>>, type |-> 0, id |-> InvalidID,
           callback |-> "none", res |-> "void", retId |-> InvalidID, relocked |-> FALSE,
           calls |-> <<>>, loadCalls |-> <<>>]

\* the call returns, throws, blocks or kills the process: M becomes the state
Finish(M, call) ==
    /\ m_initialized' = M.initialized
    /\ m_resourceRootPath' = M.root
    /\ m_nameToIdMap' = M.nameToId
    /\ m_resources' = M.resources
    /\ m_packageToResourcesMap' = M.packages
    /\ m_hotReloadCallbacks' = M.callbacks
    /\ m_totalMemoryUsage' = M.total
    /\ mutex' = IF M.ctl \in {"hang", "crash"} THEN "held" ELSE "free"
    /\ proc' = CASE M.ctl = "hang" -> "hung"
                 [] M.ctl = "crash" -> "crashed"
                 [] OTHER -> "running"
    /\ last' = [call EXCEPT !.res = IF M.ctl = "run" THEN M.ret
                                    ELSE IF M.ctl = "throw" THEN "exception" ELSE M.ctl,
                            !.retId = IF M.ctl = "run" THEN M.retId ELSE InvalidID,
                            !.relocked = M.relocked,
                            !.calls = M.calls,
                            !.loadCalls = M.loadCalls]
    /\ UNCHANGED <<relock, fs, packer, server>>

CanCall == proc = "running" /\ mutex = "free"

RefBelowMax(id) == id \in DOMAIN m_resources => m_resources[id].referenceCount < MaxRef

DoInitialize(root) ==
    /\ CanCall
    /\ Finish(Initialize(Mgr, FALSE, root), [NoCall EXCEPT !.op = "Initialize", !.path = root])

DoShutdown(ub) ==
    /\ CanCall
    /\ Finish(Shutdown(Mgr, FALSE, ub), [NoCall EXCEPT !.op = "Shutdown"])

DoLoadResourcePackage(path) ==
    /\ CanCall
    /\ Finish(LoadResourcePackage(Mgr, FALSE, path),
              [NoCall EXCEPT !.op = "LoadResourcePackage", !.path = path])

DoUnloadResourcePackage(path, ub) ==
    /\ CanCall
    /\ Finish(UnloadResourcePackage(Mgr, FALSE, path, ub),
              [NoCall EXCEPT !.op = "UnloadResourcePackage", !.path = path])

DoUnloadAllResourcePackages(ub) ==
    /\ CanCall
    /\ Finish(UnloadAllResourcePackages(Mgr, FALSE, ub),
              [NoCall EXCEPT !.op = "UnloadAllResourcePackages"])

DoLoadResource(name, type, ub) ==
    /\ CanCall
    /\ name \in DOMAIN m_nameToIdMap => RefBelowMax(m_nameToIdMap[name])
    /\ Finish(LoadResource(Mgr, FALSE, name, type, ub),
              [NoCall EXCEPT !.op = "LoadResource", !.name = name, !.type = type])

DoLoadResourceAsync(name, type, callback, ub) ==
    /\ CanCall
    /\ name \in DOMAIN m_nameToIdMap => RefBelowMax(m_nameToIdMap[name])
    /\ Finish(LoadResourceAsync(Mgr, FALSE, name, type, callback, ub),
              [NoCall EXCEPT !.op = "LoadResourceAsync", !.name = name, !.type = type,
                             !.callback = callback])

DoGetResource(id) ==
    /\ CanCall
    /\ Finish(GetResource(Mgr, FALSE, id), [NoCall EXCEPT !.op = "GetResource", !.id = id])

DoAddResourceRef(id) ==
    /\ CanCall
    /\ RefBelowMax(id)
    /\ Finish(Return(AddResourceRef(Mgr, FALSE, id), "void"),
              [NoCall EXCEPT !.op = "AddResourceRef", !.id = id])

DoReleaseResource(id, ub) ==
    /\ CanCall
    /\ Finish(Return(ReleaseResource(Mgr, FALSE, id, ub), "void"),
              [NoCall EXCEPT !.op = "ReleaseResource", !.id = id])

DoReloadResource(id, ub) ==
    /\ CanCall
    /\ Finish(ReloadResource(Mgr, FALSE, id, ub),
              [NoCall EXCEPT !.op = "ReloadResource", !.id = id])

DoRegisterHotReloadCallback(callback) ==
    /\ CanCall
    /\ Len(m_hotReloadCallbacks) < MaxSubs
    /\ Finish(RegisterHotReloadCallback(Mgr, FALSE, callback),
              [NoCall EXCEPT !.op = "RegisterHotReloadCallback"])

DoUnloadUnusedResources(ub) ==
    /\ CanCall
    /\ Finish(UnloadUnusedResources(Mgr, FALSE, ub),
              [NoCall EXCEPT !.op = "UnloadUnusedResources"])

DoUnloadAllResources(ub) ==
    /\ CanCall
    /\ Finish(UnloadAllResources(Mgr, FALSE, ub), [NoCall EXCEPT !.op = "UnloadAllResources"])

\* the environment rewrites, truncates or removes a package file
WriteFile(path, file) ==
    /\ proc = "running"
    /\ fs[path] # file
    /\ fs' = [fs EXCEPT ![path] = file]
    /\ last' = [NoCall EXCEPT !.op = "WriteFile", !.path = path]
    /\ UNCHANGED <<relock, m_initialized, m_resourceRootPath, m_nameToIdMap, m_resources,
                   m_packageToResourcesMap, m_hotReloadCallbacks, m_totalMemoryUsage,
                   mutex, proc, packer, server>>

\* the packing tool: one call of a public function of AssetPacker each
PackerStep(P, files, call) ==
    /\ packer' = P
    /\ fs' = files
    /\ last' = [call EXCEPT !.res = P.ret]
    /\ UNCHANGED <<relock, m_initialized, m_resourceRootPath, m_nameToIdMap, m_resources,
                   m_packageToResourcesMap, m_hotReloadCallbacks, m_totalMemoryUsage,
                   mutex, proc, server>>

DoSetOutputPath(path) ==
    /\ packer.outputPath # path
    /\ PackerStep([SetOutputPath(packer, path) EXCEPT !.ret = "void"], fs,
                  [NoCall EXCEPT !.op = "SetOutputPath", !.path = path])

DoSetCompressionLevel(level) ==
    /\ PackerStep([SetCompressionLevel(packer, level) EXCEPT !.ret = "void"], fs,
                  [NoCall EXCEPT !.op = "SetCompressionLevel"])

DoSetOverwrite(overwrite) ==
    /\ PackerStep([SetOverwrite(packer, overwrite) EXCEPT !.ret = "void"], fs,
                  [NoCall EXCEPT !.op = "SetOverwrite"])

DoAddResource(resourcePath, type) ==
    /\ Len(packer.metadataList) < MaxPacked
    /\ PackerStep(AddResource(packer, SourceTree, resourcePath, type), fs,
                  [NoCall EXCEPT !.op = "AddResource", !.name = resourcePath, !.type = type])

\* the orders in which a directory iteration can yield a set of files
Orderings(files) ==
    {order \in [1..Cardinality(files) -> files] :
        \A i, j \in DOMAIN order : i # j => order[i] # order[j]}

DoAddResourceDirectory(directoryPath, type) ==
    /\ Len(packer.metadataList) + Cardinality(FilesUnder(SourceTree, directoryPath))
          <= MaxPacked
    /\ \E entries \in Orderings(FilesUnder(SourceTree, directoryPath)) :
          PackerStep(AddResourceDirectory(packer, SourceTree, directoryPath, type, entries),
                     fs, [NoCall EXCEPT !.op = "AddResourceDirectory",
                                        !.name = directoryPath, !.type = type])

DoPack(rb) ==
    /\ rb \in StreamReads
    /\ PackerStep(Pack(packer, fs, rb).P, Pack(packer, fs, rb).files,
                  [NoCall EXCEPT !.op = "Pack", !.path = packer.outputPath])

DoPackChecksummed(rb) ==
    /\ rb \in StreamReads
    /\ \E r \in {PackChecksummed(packer, fs, rb)} :
          PackerStep(r.P, r.files,
                     [NoCall EXCEPT !.op = "Pack", !.path = packer.outputPath])

----------------------------------------------------------------------------
(* The sync server of tools/ResourceSyncServer.cpp.                         *)

MaxClients == 2    \* peers that may connect
MaxMessages == 2   \* messages the peers may write in all

\* ResourceSyncServer::ResourceSyncServer: nothing listens, no thread runs.
\* A connection c is the ClientConnection the accept thread makes for peer c:
\* peer and wire are the remote end and the bytes in flight to the server,
\* sent the messages the peer has written, buffer the local std::string of
\* ReceiveMessage, handled the asset ids HandleReloadResource has answered,
\* joins the calls of m_thread.join() and closes those of close(m_socket).
\* Message k of a peer is the text {"type":"reload_resource","asset_id":k},
\* kept as the three bytes 123 ("{"), 48 + k (the digit k) and 125 ("}"), and
\* the newline is the byte 10
NewServer ==
    [m_running |-> FALSE,
     m_serverSocket |-> "none",
     m_clientsMutex |-> "free",
     m_clients |-> <<>>,
     main |-> "constructed",
     at |-> 1,
     m_serverThread |-> "none",
     acceptThread |-> "none",
     accepted |-> 0,
     conn |-> [c \in 1..MaxClients |->
                 [peer |-> "idle", wire |-> <<>>, sent |-> 0,
                  m_connected |-> FALSE, m_thread |-> "none", buffer |-> <<>>,
                  message |-> 0, handled |-> <<>>, joins |-> 0, closes |-> 0]]]

Init ==
    /\ relock \in RelockOutcomes
    /\ fs = [p \in Paths |-> IF p = "p1" THEN FileA ELSE FileB]
    /\ m_initialized = FALSE
    /\ m_resourceRootPath = ""
    /\ m_nameToIdMap = EmptyMap
    /\ m_resources = EmptyMap
    /\ m_packageToResourcesMap = EmptyMap
    /\ m_hotReloadCallbacks = <<>>
    /\ m_totalMemoryUsage = 0
    /\ mutex = "free"
    /\ proc = "running"
    /\ packer = NewAssetPacker
    /\ server = NewServer
    /\ last = NoCall

\* Spec: one package path, "p1", and the resource "a" its files hold
OnePath == {"p1"}
OneName == {NameA}
OneId == {IdA}
OneIter == [iter : {"continue", "stop", "crash"}, first : OnePath, uninit : {0}]

Next ==
    \/ \E root \in RootPaths : DoInitialize(root)
    \/ \E ub \in OneIter : DoShutdown(ub)
    \/ \E path \in OnePath : DoLoadResourcePackage(path)
    \/ \E path \in OnePath : DoUnloadResourcePackage(path, NoUB)
    \/ \E ub \in OneIter : DoUnloadAllResourcePackages(ub)
    \/ \E name \in OneName, type \in Types, ub \in UninitChoices :
          DoLoadResource(name, type, ub)
    \/ \E id \in OneId : DoGetResource(id)
    \/ \E id \in OneId : DoAddResourceRef(id)
    \/ \E id \in OneId : DoReleaseResource(id, NoUB)
    \/ \E id \in OneId, ub \in UninitChoices : DoReloadResource(id, ub)
    \/ \E callback \in Subscribers : DoRegisterHotReloadCallback(callback)
    \/ DoUnloadUnusedResources(NoUB)
    \/ DoUnloadAllResources(NoUB)
    \/ \E path \in OnePath : \E file \in FilesAt(path) : WriteFile(path, file)

Spec == Init /\ [][Next]_vars

\* SpecPack: the packing tool writes the package p1, the manager mounts and
\* loads what it wrote; p1 does not exist at first
InitPack ==
    /\ relock \in RelockOutcomes
    /\ fs = [p \in Paths |-> IF p = "p1" THEN NoFile ELSE FileB]
    /\ m_initialized = FALSE
    /\ m_resourceRootPath = ""
    /\ m_nameToIdMap = EmptyMap
    /\ m_resources = EmptyMap
    /\ m_packageToResourcesMap = EmptyMap
    /\ m_hotReloadCallbacks = <<>>
    /\ m_totalMemoryUsage = 0
    /\ mutex = "free"
    /\ proc = "running"
    /\ packer = NewAssetPacker
    /\ server = NewServer
    /\ last = NoCall

NextPack ==
    \/ \E path \in OnePath : DoSetOutputPath(path)
    \/ \E level \in Levels : DoSetCompressionLevel(level)
    \/ \E overwrite \in BOOLEAN : DoSetOverwrite(overwrite)
    \/ \E resourcePath \in SourcePaths, type \in {UNKNOWN, SCRIPT} :
          DoAddResource(resourcePath, type)
    \/ \E rb \in StreamReads : DoPack(rb)
    \/ DoInitialize(".")
    \/ \E path \in OnePath : DoLoadResourcePackage(path)
    \/ \E name \in OneName, type \in Types : DoLoadResource(name, type, NoUB)

SpecPack == InitPack /\ [][NextPack]_vars

\* SpecRefs: load, add_ref and release on the single id of "a", from the state
\* Initialize(".") and LoadResourcePackage("p1") leave; the file may change
EmptyMgr == [resources |-> EmptyMap, nameToId |-> EmptyMap, packages |-> EmptyMap,
             callbacks |-> <<>>, total |-> 0, initialized |-> FALSE, root |-> "",
             ctl |-> "run", relocked |-> FALSE, calls |-> <<>>, loadCalls |-> <<>>,
             ret |-> "void", retId |-> InvalidID]

InitRefs ==
    /\ relock \in RelockOutcomes
    /\ fs = [p \in Paths |-> IF p = "p1" THEN FileA ELSE FileB]
    /\ LET M == LoadResourcePackage(Initialize(EmptyMgr, FALSE, "."), FALSE, "p1")
       IN  /\ m_initialized = M.initialized
           /\ m_resourceRootPath = M.root
           /\ m_nameToIdMap = M.nameToId
           /\ m_resources = M.resources
           /\ m_packageToResourcesMap = M.packages
           /\ m_hotReloadCallbacks = M.callbacks
           /\ m_totalMemoryUsage = M.total
    /\ mutex = "free"
    /\ proc = "running"
    /\ packer = NewAssetPacker
    /\ server = NewServer
    /\ last = [NoCall EXCEPT !.op = "LoadResourcePackage", !.path = "p1", !.res = "true"]

NextRefs ==
    \/ \E name \in OneName, type \in Types, ub \in UninitChoices :
          DoLoadResource(name, type, ub)
    \/ \E id \in OneId : DoAddResourceRef(id)
    \/ \E id \in OneId : DoReleaseResource(id, NoUB)
    \/ \E path \in OnePath : \E file \in FilesAt(path) : WriteFile(path, file)

SpecRefs == InitRefs /\ [][NextRefs]_vars

\* SpecAdd: the packing tool alone: files and directories are added at the
\* compression levels 0 and 9 and the package is written
SrcDirs == {<<100>>, SrcA, SrcMissing}

NextAdd ==
    \/ \E level \in Levels : DoSetCompressionLevel(level)
    \/ \E overwrite \in BOOLEAN : DoSetOverwrite(overwrite)
    \/ \E path \in OnePath \cup {""} : DoSetOutputPath(path)
    \/ \E resourcePath \in SourcePaths, type \in {UNKNOWN, SCRIPT} :
          DoAddResource(resourcePath, type)
    \/ \E directoryPath \in SrcDirs, type \in {UNKNOWN, SCRIPT} :
          DoAddResourceDirectory(directoryPath, type)
    \/ \E rb \in StreamReads : DoPack(rb)

SpecAdd == InitPack /\ [][NextAdd]_vars

\* SpecAsync: load_async with and without a callback, load and release on
\* "a", from the state Initialize(".") and LoadResourcePackage("p1") leave;
\* the file may change
LoadCallbacks == {"none", "sink"}

NextAsync ==
    \/ \E name \in Names, type \in Types, callback \in LoadCallbacks, ub \in UninitChoices :
          DoLoadResourceAsync(name, type, callback, ub)
    \/ \E name \in OneName, type \in Types : DoLoadResource(name, type, NoUB)
    \/ \E id \in OneId : DoReleaseResource(id, NoUB)
    \/ \E path \in OnePath : \E file \in FilesAt(path) : WriteFile(path, file)

SpecAsync == InitRefs /\ [][NextAsync]_vars

\* SpecSum: the packing tool writing one package, with the checksum of the
\* header kept: "a.py" and "b.png" are added at the levels 0 and 9
NextSum ==
    \/ \E path \in OnePath : DoSetOutputPath(path)
    \/ \E level \in Levels : DoSetCompressionLevel(level)
    \/ \E resourcePath \in {SrcA, SrcB} : DoAddResource(resourcePath, UNKNOWN)
    \/ \E rb \in StreamReads : DoPackChecksummed(rb)

SpecSum == InitPack /\ [][NextSum]_vars

\* SpecIds: package files whose one record is named with bytes of 0x80 and
\* above ("\xE9", "a\xE9", "\x80a", "\xFF") are put at p1 and mounted
HighNames == {<<233>>, <<97, 233>>, <<128, 97>>, <<255>>}
NamedFile(name) ==
    PackageFile(MagicAMBPKG01,
                <<ResourceMetadata(U32(0, 1), SCRIPT, DataStart(1), 1, name, NONE, 1)>>,
                <<5>>)

NextIds ==
    \/ DoInitialize(".")
    \/ \E name \in HighNames : WriteFile("p1", NamedFile(name))
    \/ \E path \in OnePath : DoLoadResourcePackage(path)

SpecIds == Init /\ [][NextIds]_vars

\* SpecPkgs: the two packages p1 ("a") and p2 ("b" and another "a"), mounted
\* and unmounted in any order around loads, borrows and reference counting,
\* from the state Initialize(".") leaves; the files do not change
InitPkgs ==
    /\ relock \in RelockOutcomes
    /\ fs = [p \in Paths |-> IF p = "p1" THEN FileA ELSE FileB]
    /\ LET M == Initialize(EmptyMgr, FALSE, ".")
       IN  /\ m_initialized = M.initialized
           /\ m_resourceRootPath = M.root
           /\ m_nameToIdMap = M.nameToId
           /\ m_resources = M.resources
           /\ m_packageToResourcesMap = M.packages
           /\ m_hotReloadCallbacks = M.callbacks
           /\ m_totalMemoryUsage = M.total
    /\ mutex = "free"
    /\ proc = "running"
    /\ packer = NewAssetPacker
    /\ server = NewServer
    /\ last = [NoCall EXCEPT !.op = "Initialize", !.path = ".", !.res = "true"]

NextPkgs ==
    \/ \E path \in Paths : DoLoadResourcePackage(path)
    \/ \E path \in Paths : DoUnloadResourcePackage(path, NoUB)
    \/ \E name \in Names, type \in Types : DoLoadResource(name, type, NoUB)
    \/ \E id \in Ids : DoGetResource(id)
    \/ \E id \in Ids : DoAddResourceRef(id)
    \/ \E id \in Ids : DoReleaseResource(id, NoUB)
    \/ \E id \in Ids : DoReloadResource(id, NoUB)

SpecPkgs == InitPkgs /\ [][NextPkgs]_vars

----------------------------------------------------------------------------
(* The threads of the sync server, one step of one thread each.             *)

\* the thread of a ClientConnection: Process, ReceiveMessage, HandleMessage
\* and HandleReloadResource
Process(c) ==
    /\ proc = "running"
    /\ LET k == server.conn[c]
       IN  \/ /\ k.m_thread = "test"
              \* while (m_connected) of lines 170 and 189; line 182 on the way out
              /\ server' = [server EXCEPT
                    !.conn[c].m_thread = IF k.m_connected THEN "read" ELSE "exited",
                    !.conn[c].buffer = IF k.m_connected THEN @ ELSE <<>>]
              /\ UNCHANGED <<relock, fs, m_initialized, m_resourceRootPath, m_nameToIdMap,
                             m_resources, m_packageToResourcesMap, m_hotReloadCallbacks,
                             m_totalMemoryUsage, mutex, proc, packer, last>>
           \/ /\ k.m_thread = "read"
              /\ k.wire # <<>>
              \* read() hands over the first n bytes in flight, lines 208-239
              /\ \E n \in 1..Len(k.wire) :
                    LET buffer == k.buffer \o SubSeq(k.wire, 1, n)
                        found == {i \in 1..Len(buffer) : buffer[i] = 10}
                        newlinePos == IF found = {} THEN 0
                                      ELSE CHOOSE i \in found : \A j \in found : i <= j
                        messageStr == SubSeq(buffer, 1, newlinePos - 1)
                        parsed == /\ newlinePos # 0
                                  /\ Len(messageStr) = 3
                                  /\ messageStr[1] = 123
                                  /\ messageStr[2] - 48 \in 1..MaxMessages
                                  /\ messageStr[3] = 125
                    IN  server' = [server EXCEPT
                           !.conn[c].wire = SubSeq(k.wire, n + 1, Len(k.wire)),
                           !.conn[c].buffer =
                               IF newlinePos = 0 THEN buffer
                               ELSE IF parsed THEN <<>>
                               ELSE SubSeq(buffer, newlinePos + 1, Len(buffer)),
                           !.conn[c].message = IF parsed THEN messageStr[2] - 48 ELSE 0,
                           !.conn[c].m_thread = IF parsed THEN "handle" ELSE "test"]
              /\ UNCHANGED <<relock, fs, m_initialized, m_resourceRootPath, m_nameToIdMap,
                             m_resources, m_packageToResourcesMap, m_hotReloadCallbacks,
                             m_totalMemoryUsage, mutex, proc, packer, last>>
           \/ /\ k.m_thread = "read"
              /\ k.wire = <<>>
              /\ k.peer = "closed"
              \* read() returns 0: lines 218-221, then lines 174 and 182
              /\ server' = [server EXCEPT !.conn[c].m_connected = FALSE,
                                          !.conn[c].buffer = <<>>,
                                          !.conn[c].m_thread = "exited"]
              /\ UNCHANGED <<relock, fs, m_initialized, m_resourceRootPath, m_nameToIdMap,
                             m_resources, m_packageToResourcesMap, m_hotReloadCallbacks,
                             m_totalMemoryUsage, mutex, proc, packer, last>>
           \/ /\ k.m_thread = "handle"
              /\ mutex = "free"
              \* HandleReloadResource, lines 309-328: the reload and its response
              /\ LET assetId == U32(0, k.message)
                     M == ReloadResource(Mgr, FALSE, assetId, NoUB)
                 IN  /\ m_initialized' = M.initialized
                     /\ m_resourceRootPath' = M.root
                     /\ m_nameToIdMap' = M.nameToId
                     /\ m_resources' = M.resources
                     /\ m_packageToResourcesMap' = M.packages
                     /\ m_hotReloadCallbacks' = M.callbacks
                     /\ m_totalMemoryUsage' = M.total
                     /\ mutex' = IF M.ctl \in {"hang", "crash"} THEN "held" ELSE "free"
                     /\ proc' = CASE M.ctl = "hang" -> "hung"
                                  [] M.ctl = "crash" -> "crashed"
                                  [] OTHER -> "running"
                     /\ last' = [NoCall EXCEPT !.op = "ReloadResource", !.id = assetId,
                                               !.res = M.ret]
                     /\ server' = [server EXCEPT
                           !.conn[c].handled = Append(@, k.message),
                           !.conn[c].message = 0,
                           !.conn[c].m_thread = "test"]
              /\ UNCHANGED <<relock, fs, packer>>

\* the accept thread
AcceptConnections ==
    /\ proc = "running"
    /\ \/ /\ server.acceptThread = "while"
          \* while (m_running), line 565
          /\ server' = [server EXCEPT
                !.acceptThread = IF server.m_running THEN "accept" ELSE "exited"]
       \/ /\ server.acceptThread = "accept"
          /\ server.m_serverSocket = "listening"
          \* accept() returns the connection of a peer, and lines 146-152 start
          \* its thread
          /\ \E c \in 1..MaxClients :
                /\ server.conn[c].peer = "queued"
                /\ server' = [server EXCEPT !.conn[c].peer = "open",
                                            !.conn[c].m_connected = TRUE,
                                            !.conn[c].m_thread = "test",
                                            !.accepted = c,
                                            !.acceptThread = "push"]
       \/ /\ server.acceptThread = "accept"
          /\ server.m_serverSocket = "none"
          \* accept() fails on the closed socket, lines 576-581; a call that was
          \* blocked when Stop closed the socket is taken to fail as well
          /\ server' = [server EXCEPT !.acceptThread = "while"]
       \/ /\ server.acceptThread = "push"
          /\ server.m_clientsMutex = "free"
          \* lines 599-602
          /\ server' = [server EXCEPT !.m_clients = Append(@, server.accepted),
                                      !.acceptThread = "prune"]
       \/ /\ server.acceptThread = "prune"
          /\ server.m_clientsMutex = "free"
          \* lines 605-614: the erased connections are destroyed, lines 154-165
          /\ server' = [server EXCEPT
                !.m_clients = SelectSeq(@, LAMBDA c : server.conn[c].m_connected),
                !.conn = [c \in 1..MaxClients |->
                            IF c \in Range(server.m_clients) /\ ~server.conn[c].m_connected
                            THEN [@[c] EXCEPT !.joins = @ + 1, !.closes = @ + 1,
                                              !.m_thread = "joined"]
                            ELSE @[c]],
                !.acceptThread = "while"]
    /\ UNCHANGED <<relock, fs, m_initialized, m_resourceRootPath, m_nameToIdMap, m_resources,
                   m_packageToResourcesMap, m_hotReloadCallbacks, m_totalMemoryUsage,
                   mutex, proc, packer, last>>

\* the server thread
ServerLoop ==
    /\ proc = "running"
    /\ \/ /\ server.m_serverThread = "start"
          \* line 550
          /\ server' = [server EXCEPT !.acceptThread = "while", !.m_serverThread = "lock"]
       \/ /\ server.m_serverThread \in {"lock", "wake"}
          /\ server.m_clientsMutex = "free"
          \* line 553, and the lock wait() takes again once it is woken
          /\ server' = [server EXCEPT !.m_clientsMutex = "server",
                                      !.m_serverThread = "wait"]
       \/ /\ server.m_serverThread = "wait"
          \* line 554: the predicate is read, and wait() gives the lock up
          /\ server' = IF ~server.m_running
                       THEN [server EXCEPT !.m_serverThread = "join"]
                       ELSE [server EXCEPT !.m_clientsMutex = "free",
                                           !.m_serverThread = "waiting"]
       \/ /\ server.m_serverThread = "join"
          /\ server.acceptThread = "exited"
          \* line 557, and the unlock at the end of the scope
          /\ server' = [server EXCEPT !.m_clientsMutex = "free",
                                      !.acceptThread = "joined",
                                      !.m_serverThread = "exited"]
    /\ UNCHANGED <<relock, fs, m_initialized, m_resourceRootPath, m_nameToIdMap, m_resources,
                   m_packageToResourcesMap, m_hotReloadCallbacks, m_totalMemoryUsage,
                   mutex, proc, packer, last>>

\* the main thread: Start, Stop and Join as main() calls them
Main ==
    /\ proc = "running"
    /\ \/ /\ server.main = "constructed"
          \* Start, lines 427-492
          /\ server' = [server EXCEPT !.m_serverSocket = "listening",
                                      !.m_running = TRUE,
                                      !.m_serverThread = "start",
                                      !.main = "started"]
       \/ /\ server.main = "started"
          \* Stop, line 495
          /\ server' = [server EXCEPT !.m_running = FALSE, !.main = "notify"]
       \/ /\ server.main = "notify"
          \* line 498: notify_all wakes the thread that waits now
          /\ server' = [server EXCEPT
                !.m_serverThread = IF @ = "waiting" THEN "wake" ELSE @,
                !.main = "close"]
       \/ /\ server.main = "close"
          \* lines 501-508
          /\ server' = [server EXCEPT !.m_serverSocket = "none", !.main = "lock"]
       \/ /\ server.main = "lock"
          /\ server.m_clientsMutex = "free"
          \* line 511
          /\ server' = [server EXCEPT !.m_clientsMutex = "main", !.at = 1,
                                      !.main = "destroy"]
       \/ /\ server.main = "destroy"
          /\ server.at <= Len(server.m_clients)
          \* lines 512-514, the destructor's line 156
          /\ server' = [server EXCEPT !.conn[server.m_clients[server.at]].m_connected = FALSE,
                                      !.main = "join"]
       \/ /\ server.main = "join"
          /\ server.conn[server.m_clients[server.at]].m_thread = "exited"
          \* the destructor's lines 158-164
          /\ server' = [server EXCEPT
                !.conn[server.m_clients[server.at]] =
                    [@ EXCEPT !.joins = @ + 1, !.closes = @ + 1, !.m_thread = "joined"],
                !.at = @ + 1,
                !.main = "destroy"]
       \/ /\ server.main = "destroy"
          /\ server.at > Len(server.m_clients)
          \* line 515: clear() deletes each connection, so lines 154-165 run on
          \* it a second time: m_thread has been joined and is not joinable, and
          \* close(m_socket) is called again on the same descriptor
          /\ server' = [server EXCEPT
                !.conn = [c \in 1..MaxClients |->
                            IF c \in Range(server.m_clients)
                            THEN [@[c] EXCEPT !.closes = @ + 1]
                            ELSE @[c]],
                !.m_clients = <<>>,
                !.m_clientsMutex = "free",
                !.at = 1,
                !.main = "stopped"]
       \/ /\ server.main = "stopped"
          /\ server.m_serverThread = "exited"
          \* Join, lines 518-522
          /\ server' = [server EXCEPT !.m_serverThread = "joined", !.main = "joined"]
    /\ UNCHANGED <<relock, fs, m_initialized, m_resourceRootPath, m_nameToIdMap, m_resources,
                   m_packageToResourcesMap, m_hotReloadCallbacks, m_totalMemoryUsage,
                   mutex, proc, packer, last>>

\* the threads of the server, and what the peers and the condition variable
\* may do to them: a peer connects (the peers in the order of their numbers),
\* writes its next message, or closes; a wait() wakes up spuriously
NextServer ==
    \/ Main
    \/ ServerLoop
    \/ AcceptConnections
    \/ \E c \in 1..MaxClients : Process(c)
    \/ /\ proc = "running"
       /\ \E c \in 1..MaxClients :
             \/ /\ server.conn[c].peer = "idle"
                /\ \A d \in 1..(c - 1) : server.conn[d].peer # "idle"
                /\ server.m_serverSocket = "listening"
                /\ server' = [server EXCEPT !.conn[c].peer = "queued"]
             \/ /\ server.conn[c].peer = "open"
                /\ Cardinality({m \in (1..MaxClients) \X (1..MaxMessages) :
                                   m[2] <= server.conn[m[1]].sent}) < MaxMessages
                /\ server' = [server EXCEPT
                      !.conn[c].wire = @ \o <<123, 48 + server.conn[c].sent + 1, 125, 10>>,
                      !.conn[c].sent = @ + 1]
             \/ /\ server.conn[c].peer = "open"
                /\ server' = [server EXCEPT !.conn[c].peer = "closed"]
       /\ UNCHANGED <<relock, fs, m_initialized, m_resourceRootPath, m_nameToIdMap,
                      m_resources, m_packageToResourcesMap, m_hotReloadCallbacks,
                      m_totalMemoryUsage, mutex, proc, packer, last>>
    \/ /\ proc = "running"
       /\ server.m_serverThread = "waiting"
       /\ server' = [server EXCEPT !.m_serverThread = "wake"]
       /\ UNCHANGED <<relock, fs, m_initialized, m_resourceRootPath, m_nameToIdMap,
                      m_resources, m_packageToResourcesMap, m_hotReloadCallbacks,
                      m_totalMemoryUsage, mutex, proc, packer, last>>

\* main() has initialized the manager and constructed the server; the reload
\* a connection asks for locks m_mutex once, so one outcome of a second lock
\* stands for all
InitServer ==
    /\ InitPkgs
    /\ relock = "proceed"

\* every thread of the program is scheduled again and again; the peers and
\* spurious wake-ups owe nothing
SpecServer ==
    /\ InitServer
    /\ [][NextServer]_vars
    /\ WF_vars(Main)
    /\ WF_vars(ServerLoop)
    /\ WF_vars(AcceptConnections)
    /\ \A c \in 1..MaxClients : WF_vars(Process(c))

\* the search of LoadResourceFromPackage has at most one package to find
OwnerUnique ==
    \A id \in DOMAIN m_resources :
        Cardinality(PackagesListing(Mgr, m_resources[id].metadata.id)) <= 1

TypeOK ==
    /\ relock \in RelockOutcomes
    /\ m_initialized \in BOOLEAN
    /\ mutex \in {"free", "held"}
    /\ proc \in {"running", "hung", "crashed"}
    /\ packer.nextResourceId \in 1..(MaxPacked + 1)
    /\ \A id \in DOMAIN m_resources :
          /\ m_resources[id].status \in {"UNLOADED", "LOADED"}
          /\ m_resources[id].ptr \in {"null", "live", "dangling"}
          /\ m_resources[id].referenceCount \in 0..MaxRef

----------------------------------------------------------------------------
(* Properties.                                                              *)

RECURSIVE SumLoadedSizes(_, _)
\* the payload sizes of the items of ids whose status is LOADED, added up
SumLoadedSizes(resources, ids) ==
    IF ids = {} THEN 0
    ELSE LET id == CHOOSE x \in ids : TRUE
         IN  (IF resources[id].status = "LOADED" THEN resources[id].dataSize ELSE 0)
             + SumLoadedSizes(resources, ids \ {id})

\* C1: after any sequence of manager operations (whenever no call is blocked
\* and the process lives), total_memory is the sum of the payload sizes of
\* exactly the items whose status is LOADED.
C1_MemoryAccounting ==
    proc = "running" =>
        m_totalMemoryUsage = SumLoadedSizes(m_resources, DOMAIN m_resources)

\* what a package file stores for the resource called name, decoded with the
\* record the file itself carries
StoredPayload(file, name) ==
    LET hits == {i \in DOMAIN file.records : file.records[i].name = name}
    IN  IF ~file.exists \/ hits = {} THEN [ok |-> FALSE, bytes |-> <<>>]
        ELSE
          LET md == file.records[CHOOSE i \in hits : TRUE]
              rd == ReadAt(file, md.offset, md.size)
              z == inflate(rd.bytes, md.originalSize)
          IN  CASE ~rd.good -> [ok |-> FALSE, bytes |-> <<>>]
                [] rd.good /\ md.compressionType = NONE -> [ok |-> TRUE, bytes |-> rd.bytes]
                [] rd.good /\ md.compressionType = DEFLATE ->
                     [ok |-> z.result = Z_STREAM_END /\ Len(z.out) = md.originalSize,
                      bytes |-> z.out]
                [] OTHER -> [ok |-> FALSE, bytes |-> <<>>]

\* the mounted packages that registered id
MountedOwners(id) ==
    {p \in DOMAIN m_packageToResourcesMap : id \in Range(m_packageToResourcesMap[p])}

\* C2: over any sequence of load, add_ref and release calls on a single id,
\* the item's payload is resident in memory exactly when its ref_count is
\* greater than 0 and its status is not FAILED.
C2_ResidentIffReferenced ==
    \A id \in DOMAIN m_resources :
        (m_resources[id].ptr = "live")
            <=> (m_resources[id].referenceCount > 0 /\ m_resources[id].status # "FAILED")

\* C3: for a resource registered by mount whose package is still mounted and
\* readable, a load(name, type) with the stored type that returns has found
\* the owning package: the payload is resident, the status is LOADED, the
\* ref_count is one higher and the result is the item's nonzero id; on an
\* item that was already LOADED nothing but the ref_count changes.
C3_LoadFindsOwningPackage ==
    [][(/\ last'.op = "LoadResource"
        /\ last'.res \in {"id", "zero"}
        /\ last'.name \in DOMAIN m_nameToIdMap
        /\ m_nameToIdMap[last'.name] \in DOMAIN m_resources
        /\ m_resources[m_nameToIdMap[last'.name]].metadata.type = last'.type
        /\ \E p \in MountedOwners(m_nameToIdMap[last'.name]) :
              StoredPayload(fs[p], last'.name).ok)
       => LET id == m_nameToIdMap[last'.name]
          IN  /\ last'.retId = id
              /\ id # InvalidID
              /\ id \in DOMAIN m_resources'
              /\ m_resources'[id].status = "LOADED"
              /\ m_resources'[id].ptr = "live"
              /\ m_resources'[id].referenceCount = m_resources[id].referenceCount + 1
              /\ m_resources[id].status = "LOADED" =>
                    /\ m_resources' = [m_resources EXCEPT ![id].referenceCount = @ + 1]
                    /\ m_totalMemoryUsage' = m_totalMemoryUsage
      ]_vars

\* the id values a metadata record can carry on disk for "a": the hash of the
\* name, or the counter the packer starts at 1
DiskIdValues == {IdA, U32(0, 1)}

\* the registry the same calls would have built had each record carried the
\* id value d on disk (mount copies the record as it is, and keys it by name)
WithDiskId(M, d) ==
    [M EXCEPT !.resources = [id \in DOMAIN @ |-> [@[id] EXCEPT !.metadata.id = d]]]

\* C4: the id field of a metadata record on disk is advisory: whatever value
\* the packer wrote there, a load returns the same result and leaves the same
\* status, payload and total_memory.
C4_DiskIdAdvisory ==
    \A d \in DiskIdValues, name \in OneName, type \in Types :
        LET A == LoadResource(Mgr, FALSE, name, type, NoUB)
            B == LoadResource(WithDiskId(Mgr, d), FALSE, name, type, NoUB)
        IN  /\ A.ret = B.ret
            /\ A.retId = B.retId
            /\ A.total = B.total
            /\ \A id \in DOMAIN A.resources :
                  /\ A.resources[id].status = B.resources[id].status
                  /\ A.resources[id].bytes = B.resources[id].bytes

\* C5: a package written by a successful Pack() carries the 8 magic bytes
\* "AMBPKG01", its header reads back with the version, resource count and
\* total size the packer set, and an initialized manager mounts it.
C5_PackedHeaderReadsBack ==
    (last.op = "Pack" /\ last.res = "true") =>
        LET file == fs[packer.outputPath]
        IN  /\ file.exists
            /\ file.magic = MagicAMBPKG01
            /\ file.version = packer.version
            /\ file.resourceCount = Len(packer.metadataList)
            /\ file.totalSize = packer.totalSize
            /\ LoadResourcePackage([EmptyMgr EXCEPT !.initialized = TRUE], FALSE,
                                   packer.outputPath).ret = "true"

\* C6: no call of load, unmount, unmount_all or shutdown locks the mutex
\* again on the thread that holds it: each such call returns and leaves the
\* mutex free.
C6_LocksOnce ==
    last.op \in {"LoadResource", "UnloadResourcePackage", "UnloadAllResourcePackages",
                 "Shutdown"}
        => /\ ~last.relocked
           /\ last.res \notin {"hang", "exception", "crash"}
           /\ mutex = "free"
           /\ proc = "running"

\* C7: the subscribers reload fires are invoked while the mutex is not held,
\* so a reload whose subscriber calls back into the manager returns true with
\* the manager alive.
C7_SubscribersOutsideLock ==
    last.op = "ReloadResource" =>
        /\ \A i \in DOMAIN last.calls : ~last.calls[i].mutexHeld
        /\ last.calls # <<>> => (last.res = "true" /\ proc = "running")

\* C8: a load(name, type) of a registered item of that type that fails on
\* the load path (it returns 0 for an item that was not LOADED) leaves the
\* item's status FAILED.
C8_FailedLoadMarksFailed ==
    [][(/\ last'.op = "LoadResource"
        /\ last'.res = "zero"
        /\ last'.name \in DOMAIN m_nameToIdMap
        /\ m_nameToIdMap[last'.name] \in DOMAIN m_resources
        /\ m_resources[m_nameToIdMap[last'.name]].metadata.type = last'.type
        /\ m_resources[m_nameToIdMap[last'.name]].status # "LOADED")
       => LET id == m_nameToIdMap[last'.name]
          IN  /\ id \in DOMAIN m_resources'
              /\ m_resources'[id].status = "FAILED"
              /\ last'.retId = InvalidID
      ]_vars

\* C9: a reload(id) of a present item that returns true leaves the ref_count
\* as it was and the status LOADED, and the payload is what the owning
\* package stores for the item at that moment.
C9_ReloadRefreshes ==
    [][(last'.op = "ReloadResource" /\ last'.res = "true")
       => LET id == last'.id
          IN  /\ id \in DOMAIN m_resources
              /\ id \in DOMAIN m_resources'
              /\ m_resources'[id].referenceCount = m_resources[id].referenceCount
              /\ m_resources'[id].status = "LOADED"
              /\ m_resources'[id].ptr = "live"
              /\ \E p \in MountedOwners(id) :
                    LET stored == StoredPayload(fs[p], m_resources[id].metadata.name)
                    IN  stored.ok /\ m_resources'[id].bytes = stored.bytes
      ]_vars

\* the load path has nothing to read for the item: no mounted package lists
\* the id its metadata carries, the file is gone, the extent is cut short, or
\* the bytes do not decode
SourceUnusable(id) ==
    LET md == m_resources[id].metadata
        owners == {p \in DOMAIN m_packageToResourcesMap :
                      md.id \in Range(m_packageToResourcesMap[p])}
    IN  \A p \in owners :
            \/ ~fs[p].exists
            \/ ~ReadAt(fs[p], md.offset, md.size).good
            \/ md.compressionType \notin {NONE, DEFLATE}
            \/ /\ md.compressionType = DEFLATE
               /\ inflate(ReadAt(fs[p], md.offset, md.size).bytes,
                          md.originalSize).result # Z_STREAM_END

\* C10: a reload(id) that fails leaves the item UNLOADED, with no resident
\* payload and the ref_count it had, total_memory lowered by the size of the
\* payload that was resident, and returns false when the load path has
\* nothing to read; a reload of an absent id returns false and changes
\* nothing.
C10_FailedReload ==
    [][/\ (last'.op = "ReloadResource" /\ last'.res = "false") =>
            IF last'.id \notin DOMAIN m_resources
            THEN UNCHANGED <<fs, m_initialized, m_resourceRootPath, m_nameToIdMap,
                             m_resources, m_packageToResourcesMap, m_hotReloadCallbacks,
                             m_totalMemoryUsage, mutex, proc>>
            ELSE LET id == last'.id
                 IN  /\ id \in DOMAIN m_resources'
                     /\ m_resources'[id].status = "UNLOADED"
                     /\ m_resources'[id].ptr = "null"
                     /\ m_resources'[id].bytes = <<>>
                     /\ m_resources'[id].referenceCount = m_resources[id].referenceCount
                     /\ m_totalMemoryUsage' = m_totalMemoryUsage -
                            (IF m_resources[id].ptr = "null" THEN 0
                             ELSE m_resources[id].dataSize)
                     /\ last'.calls = <<>>
       /\ (/\ last'.op = "ReloadResource"
           /\ last'.res \in {"true", "false"}
           /\ last'.id \in DOMAIN m_resources => SourceUnusable(last'.id))
          => last'.res = "false"
      ]_vars

\* a reload has failed on an item that was resident and referenced twice: the
\* file had been damaged after the load
C10_Witness ==
    /\ last.op = "ReloadResource"
    /\ last.res = "false"
    /\ fs["p1"] = FileACorrupt
    /\ IdA \in DOMAIN m_resources
    /\ m_resources[IdA].referenceCount = 2
    /\ m_resources[IdA].status = "UNLOADED"
    /\ m_resources[IdA].ptr = "null"
    /\ m_totalMemoryUsage = 0

\* C11: a reload that returns true has invoked every registered subscriber
\* exactly once, in order, with the reloaded id; a reload that returns false
\* and every other operation invoke no subscriber.
C11_SubscribersOncePerReload ==
    /\ (last.op = "ReloadResource" /\ last.res = "true") =>
          /\ Len(last.calls) = Len(m_hotReloadCallbacks)
          /\ \A i \in DOMAIN last.calls :
                last.calls[i].sub = i /\ last.calls[i].id = last.id
    /\ (last.op = "ReloadResource" /\ last.res = "false") => last.calls = <<>>
    /\ last.op # "ReloadResource" => last.calls = <<>>

\* a reload has returned true with one subscriber registered and invoked
C11_Witness ==
    /\ last.op = "ReloadResource"
    /\ last.res = "true"
    /\ Len(m_hotReloadCallbacks) = 1
    /\ Len(last.calls) = 1
    /\ last.calls[1].id = IdA

\* C12: a release(id) that returns lowers ref_count by one, never below 0;
\* if the count reaches 0 while the status is LOADED the payload is freed,
\* total_memory drops by its size and the status becomes UNLOADED, otherwise
\* payload, status and total_memory stay; the item, its name mapping and every
\* other item stay as they were, and release of an absent id changes nothing.
C12_Release ==
    [][(last'.op = "ReleaseResource" /\ last'.res = "void") =>
         LET id == last'.id
         IN  /\ UNCHANGED <<fs, m_initialized, m_resourceRootPath, m_nameToIdMap,
                            m_packageToResourcesMap, m_hotReloadCallbacks, mutex, proc>>
             /\ DOMAIN m_resources' = DOMAIN m_resources
             /\ \A other \in DOMAIN m_resources \ {id} :
                   m_resources'[other] = m_resources[other]
             /\ IF id \notin DOMAIN m_resources
                THEN UNCHANGED <<m_resources, m_totalMemoryUsage>>
                ELSE LET old == m_resources[id]
                         new == m_resources'[id]
                     IN  /\ new.referenceCount = Max(old.referenceCount - 1, 0)
                         /\ new.metadata = old.metadata
                         /\ IF old.referenceCount = 1 /\ old.status = "LOADED"
                            THEN /\ new.status = "UNLOADED"
                                 /\ new.ptr = "null"
                                 /\ new.bytes = <<>>
                                 /\ m_totalMemoryUsage' = m_totalMemoryUsage - old.dataSize
                            ELSE /\ new.status = old.status
                                 /\ new.ptr = old.ptr
                                 /\ new.bytes = old.bytes
                                 /\ new.dataSize = old.dataSize
                                 /\ m_totalMemoryUsage' = m_totalMemoryUsage
      ]_vars

\* the last reference to an item of a mounted package has been released: the
\* item is still registered under its name, not resident, and nothing is
\* accounted for it
C12_Witness ==
    /\ last.op = "ReleaseResource"
    /\ last.res = "void"
    /\ last.id = IdA
    /\ IdA \in DOMAIN m_resources
    /\ NameA \in DOMAIN m_nameToIdMap
    /\ m_resources[IdA].referenceCount = 0
    /\ m_resources[IdA].status = "UNLOADED"
    /\ m_resources[IdA].ptr = "null"
    /\ m_resources[IdA].dataSize > 0
    /\ m_totalMemoryUsage = 0

\* C13: every unmount(P) does what the contract says: success, referenced
\* items freed and retained, unreferenced items removed from resources and
\* name_to_id, P removed from package_to_ids; failure without any change when
\* P is not mounted.
C13_Unmount ==
    [][last'.op = "UnloadResourcePackage" =>
          LET P == last'.path
          IN  IF P \in DOMAIN m_packageToResourcesMap
              THEN /\ last'.res = "true"
                   /\ P \notin DOMAIN m_packageToResourcesMap'
                   /\ \A id \in Range(m_packageToResourcesMap[P]) \cap DOMAIN m_resources :
                         IF m_resources[id].referenceCount > 0
                         THEN /\ id \in DOMAIN m_resources'
                              /\ m_resources'[id].status = "UNLOADED"
                              /\ m_resources'[id].ptr = "null"
                              /\ m_resources'[id].referenceCount = m_resources[id].referenceCount
                              /\ m_resources[id].metadata.name \in DOMAIN m_nameToIdMap'
                         ELSE /\ id \notin DOMAIN m_resources'
                              /\ m_resources[id].metadata.name \notin DOMAIN m_nameToIdMap'
              ELSE /\ last'.res = "false"
                   /\ UNCHANGED <<m_initialized, m_resourceRootPath, m_nameToIdMap, m_resources,
                                  m_packageToResourcesMap, m_hotReloadCallbacks,
                                  m_totalMemoryUsage>>
      ]_vars

\* C14: once an unmount has retained a referenced item X, X is registered,
\* not resident and listed by no mounted package; while that lasts no step
\* (a mount included: it skips the id) ends it other than by removing X,
\* get(X) returns null, and a load of X's name returns 0 and leaves every
\* item and total_memory as they were.
C14_OrphanUnavailable ==
    [][\A X \in Ids :
         LET Orphaned == /\ X \in DOMAIN m_resources
                         /\ m_resources[X].status = "UNLOADED"
                         /\ MountedOwners(X) = {}
             OrphanedAfter == /\ X \in DOMAIN m_resources'
                              /\ m_resources'[X].status = "UNLOADED"
                              /\ {q \in DOMAIN m_packageToResourcesMap' :
                                     X \in Range(m_packageToResourcesMap'[q])} = {}
         IN  /\ (/\ last'.op = "UnloadResourcePackage"
                 /\ last'.res = "true"
                 /\ last'.path \in MountedOwners(X)
                 /\ X \in DOMAIN m_resources
                 /\ m_resources[X].referenceCount >= 1) => OrphanedAfter
             /\ Orphaned => (OrphanedAfter \/ X \notin DOMAIN m_resources')
             /\ (Orphaned /\ last'.op = "GetResource" /\ last'.id = X)
                   => last'.res = "nullptr"
             /\ (Orphaned /\ last'.op = "LoadResource"
                          /\ last'.name = m_resources[X].metadata.name)
                   => /\ last'.res = "zero"
                      /\ UNCHANGED <<m_resources, m_totalMemoryUsage>>
      ]_vars

\* "a" was retained by an unmount of p1 and is still referenced; p2 is mounted
\* and lists "b" only; a load of "a" has just returned 0
C14_Witness ==
    /\ last.op = "LoadResource"
    /\ last.name = NameA
    /\ last.res = "zero"
    /\ IdA \in DOMAIN m_resources
    /\ m_resources[IdA].referenceCount >= 1
    /\ m_resources[IdA].status = "UNLOADED"
    /\ m_resources[IdA].metadata.type = last.type
    /\ MountedOwners(IdA) = {}
    /\ DOMAIN m_packageToResourcesMap = {"p2"}
    /\ m_packageToResourcesMap["p2"] = <<IdB>>

\* C15: an item that an unmount retained because it was referenced is
\* destroyed once its ref_count reaches 0: with no package mounted, the
\* release that drops the last reference to an item removes it from
\* resources and name_to_id.
C15_OrphanDestroyedAtZero ==
    [][(/\ last'.op = "ReleaseResource"
        /\ last'.res = "void"
        /\ last'.id \in DOMAIN m_resources
        /\ m_resources[last'.id].referenceCount = 1
        /\ m_packageToResourcesMap = EmptyMap)
       => /\ last'.id \notin DOMAIN m_resources'
          /\ m_resources[last'.id].metadata.name \notin DOMAIN m_nameToIdMap'
      ]_vars

\* C16: a mount(P) that succeeds inserts, for each record whose name-derived
\* id is not registered, a new item with status UNLOADED, ref_count 0, no
\* payload and the record as metadata, bound to its name; it leaves every
\* registered item, total_memory and the other packages' id lists as they
\* were, so that records whose id exists are skipped.
C16_MountFrame ==
    [][(last'.op = "LoadResourcePackage" /\ last'.res = "true") =>
         LET P == last'.path
             records == fs[P].records
             IdOf(i) == GenerateAssetID(records[i].name)
         IN  /\ \A id \in DOMAIN m_resources :
                   id \in DOMAIN m_resources' /\ m_resources'[id] = m_resources[id]
             /\ m_totalMemoryUsage' = m_totalMemoryUsage
             /\ \A q \in DOMAIN m_packageToResourcesMap \ {P} :
                   /\ q \in DOMAIN m_packageToResourcesMap'
                   /\ m_packageToResourcesMap'[q] = m_packageToResourcesMap[q]
             /\ DOMAIN m_resources' =
                   DOMAIN m_resources \cup {IdOf(i) : i \in DOMAIN records}
             /\ \A i \in DOMAIN records :
                   IdOf(i) \notin DOMAIN m_resources =>
                      /\ m_resources'[IdOf(i)].status = "UNLOADED"
                      /\ m_resources'[IdOf(i)].referenceCount = 0
                      /\ m_resources'[IdOf(i)].ptr = "null"
                      /\ m_resources'[IdOf(i)].bytes = <<>>
                      /\ m_resources'[IdOf(i)].metadata.name = records[i].name
                      /\ m_resources'[IdOf(i)].metadata \in Range(records)
                      /\ records[i].name \in DOMAIN m_nameToIdMap'
                      /\ m_nameToIdMap'[records[i].name] = IdOf(i)
      ]_vars

\* p2 has been mounted while "a" of p1 was resident and referenced: "b" is
\* new, the record "a" of p2 was skipped
C16_Witness ==
    /\ last.op = "LoadResourcePackage"
    /\ last.path = "p2"
    /\ last.res = "true"
    /\ m_packageToResourcesMap = [p \in Paths |-> IF p = "p1" THEN <<IdA>> ELSE <<IdB>>]
    /\ m_resources[IdA].status = "LOADED"
    /\ m_resources[IdA].referenceCount = 2
    /\ m_resources[IdA].metadata = RecordA(IdA)
    /\ m_resources[IdB].status = "UNLOADED"
    /\ m_resources[IdB].referenceCount = 0
    /\ m_totalMemoryUsage = 2

\* C17: every manager operation other than initialize that is invoked while
\* the manager is not initialized fails and leaves all manager state, the
\* hot-reload subscriber list included, unchanged.
C17_UninitializedRejects ==
    [][(/\ ~m_initialized
        /\ last'.op \notin {"none", "Initialize", "WriteFile"})
       => /\ last'.res \notin {"true", "id", "pointer"}
          /\ UNCHANGED <<m_initialized, m_resourceRootPath, m_nameToIdMap, m_resources,
                         m_packageToResourcesMap, m_hotReloadCallbacks,
                         m_totalMemoryUsage>>
      ]_vars

\* C18: initialize on an initialized manager returns success and changes
\* nothing, whatever root path it is given: root path, registry maps,
\* ref_counts, subscribers and total_memory are as before the call.
C18_DoubleInitNoOp ==
    [][(m_initialized /\ last'.op = "Initialize") =>
          /\ last'.res = "true"
          /\ UNCHANGED <<fs, m_initialized, m_resourceRootPath, m_nameToIdMap, m_resources,
                         m_packageToResourcesMap, m_hotReloadCallbacks,
                         m_totalMemoryUsage, mutex, proc>>
      ]_vars

\* Initialize("missing") has returned true on a manager that was initialized
\* with "." and holds a loaded, referenced item
C18_Witness ==
    /\ last.op = "Initialize"
    /\ last.path = "missing"
    /\ last.res = "true"
    /\ m_initialized
    /\ m_resourceRootPath = "."
    /\ IdA \in DOMAIN m_resources
    /\ m_resources[IdA].status = "LOADED"
    /\ m_resources[IdA].referenceCount = 1
    /\ m_totalMemoryUsage = 2

\* C19: the payload of an item that is LOADED and referenced stays resident,
\* with the same bytes and status LOADED, across every manager operation
\* other than release, reload, unmount and shutdown.
C19_BorrowStaysValid ==
    [][\A id \in DOMAIN m_resources :
         (/\ m_resources[id].status = "LOADED"
          /\ m_resources[id].ptr = "live"
          /\ m_resources[id].referenceCount >= 1
          /\ last'.op \notin {"ReleaseResource", "ReloadResource", "UnloadResourcePackage",
                              "UnloadAllResourcePackages", "Shutdown"})
         => /\ id \in DOMAIN m_resources'
            /\ m_resources'[id].status = "LOADED"
            /\ m_resources'[id].ptr = "live"
            /\ m_resources'[id].bytes = m_resources[id].bytes
      ]_vars

\* C20: every load_async call with a callback delivers exactly one callback
\* invocation, with the id the load returned and LOADED when that id is
\* nonzero, FAILED when it is 0, and leaves the manager state a plain load
\* with the same arguments leaves.
C20_AsyncOneCallback ==
    [][(last'.op = "LoadResourceAsync" /\ last'.callback # "none") =>
          /\ Len(last'.loadCalls) = 1
          /\ last'.loadCalls[1].id = last'.retId
          /\ last'.loadCalls[1].status =
                (IF last'.retId # InvalidID THEN "LOADED" ELSE "FAILED")
          /\ \E ub \in UninitChoices :
                LET L == LoadResource(Mgr, FALSE, last'.name, last'.type, ub)
                IN  /\ m_resources' = L.resources
                    /\ m_nameToIdMap' = L.nameToId
                    /\ m_packageToResourcesMap' = L.packages
                    /\ m_totalMemoryUsage' = L.total
                    /\ last'.retId = L.retId
      ]_vars

\* C21: a load(name, type) whose type differs from the stored metadata type
\* returns 0 and changes no state: status, ref_count, payload and
\* total_memory are as before the call.
C21_TypeMismatch ==
    [][(/\ last'.op = "LoadResource"
        /\ last'.name \in DOMAIN m_nameToIdMap
        /\ m_nameToIdMap[last'.name] \in DOMAIN m_resources
        /\ m_resources[m_nameToIdMap[last'.name]].metadata.type # last'.type)
       => /\ last'.res = "zero"
          /\ last'.retId = InvalidID
          /\ UNCHANGED <<fs, m_initialized, m_resourceRootPath, m_nameToIdMap, m_resources,
                         m_packageToResourcesMap, m_hotReloadCallbacks,
                         m_totalMemoryUsage, mutex, proc>>
      ]_vars

\* "a" (a SCRIPT) is resident with ref_count 1 and a load of it as TEXTURE_2D
\* has returned 0
C21_Witness ==
    /\ last.op = "LoadResource"
    /\ last.name = NameA
    /\ last.type = TEXTURE_2D
    /\ last.res = "zero"
    /\ IdA \in DOMAIN m_resources
    /\ m_resources[IdA].metadata.type = SCRIPT
    /\ m_resources[IdA].status = "LOADED"
    /\ m_resources[IdA].referenceCount = 1
    /\ m_totalMemoryUsage = 2

\* C22: shutdown() on an initialized manager terminates and leaves
\* name_to_id, resources, package_to_ids and the subscriber list empty,
\* total_memory 0 and initialized false, with the mutex free so that a later
\* initialize can succeed.
C22_ShutdownClears ==
    [][(m_initialized /\ last'.op = "Shutdown") =>
          /\ last'.res = "void"
          /\ m_nameToIdMap' = EmptyMap
          /\ m_resources' = EmptyMap
          /\ m_packageToResourcesMap' = EmptyMap
          /\ m_hotReloadCallbacks' = <<>>
          /\ m_totalMemoryUsage' = 0
          /\ ~m_initialized'
          /\ mutex' = "free"
          /\ proc' = "running"
      ]_vars

\* C23: in a package written by a pack() that succeeds, the payloads lie
\* one after the other in insertion order behind the metadata table: every
\* record has sizeof(Header) + resource_count * sizeof(Metadata) <= offset and
\* offset + size <= total_size, each record starts where the one before it
\* ends, and the bytes at a record's extent are the bytes stored for it.
C23_PackedLayout ==
    (last.op = "Pack" /\ last.res = "true") =>
        LET file == fs[last.path]
            records == file.records
        IN  /\ Len(records) = file.resourceCount
            /\ \A i \in DOMAIN records :
                  /\ SizeofHeader + file.resourceCount * SizeofMetadata <= records[i].offset
                  /\ records[i].offset + records[i].size <= file.totalSize
                  /\ records[i].offset =
                        (IF i = 1 THEN DataStart(file.resourceCount)
                         ELSE records[i - 1].offset + records[i - 1].size)
                  /\ ReadAt(file, records[i].offset, records[i].size) =
                        [good |-> TRUE, bytes |-> packer.resourceDataList[i]]
            /\ \A i, j \in DOMAIN records :
                  records[i].offset < records[j].offset =>
                     records[i].offset + records[i].size <= records[j].offset

\* a pack() of two resources has succeeded: the first is stored in more than
\* one byte, the second lies behind it and ends the file
C23_Witness ==
    /\ last.op = "Pack"
    /\ last.res = "true"
    /\ fs[last.path].resourceCount = 2
    /\ fs[last.path].records[1].size > 1
    /\ fs[last.path].records[2].offset > fs[last.path].records[1].offset
    /\ fs[last.path].totalSize =
          fs[last.path].records[2].offset + fs[last.path].records[2].size

\* C25: a path that was already added is rejected when it is added again,
\* through add_resource or through add_resource_directory, so no path appears
\* twice in processed_files and each processed file has one metadata record
\* and one payload.
C25_NoPathTwice ==
    /\ \A i, j \in DOMAIN packer.processedFiles :
          i # j => packer.processedFiles[i] # packer.processedFiles[j]
    /\ Len(packer.metadataList) = Len(packer.processedFiles)
    /\ Len(packer.resourceDataList) = Len(packer.processedFiles)

\* C26: logical names are unique per package: the packer rejects the
\* second input that yields a basename-without-extension it already holds, so
\* no two metadata records carry the same name.
C26_NamesUnique ==
    \A i, j \in DOMAIN packer.metadataList :
        i # j => packer.metadataList[i].name # packer.metadataList[j].name

\* C27: the packer assigns ids from a counter that starts at 1 and only
\* increases: no record has id 0, each accepted resource has an id strictly
\* greater than the ids of all resources accepted before it, and a rejected
\* add does not consume an id.
C27_IdsIncrease ==
    /\ \A i \in DOMAIN packer.metadataList : packer.metadataList[i].id # U32(0, 0)
    /\ \A i, j \in DOMAIN packer.metadataList :
          i < j => /\ packer.metadataList[i].id[1] = 0
                   /\ packer.metadataList[j].id[1] = 0
                   /\ packer.metadataList[i].id[2] < packer.metadataList[j].id[2]
    /\ packer.nextResourceId <= Len(packer.metadataList) + 1

\* C28: every metadata record an add appends has original_size equal to the
\* length of the source file; when the level is 0 or the compressed length is
\* not below the original length, the stored bytes are the source bytes with
\* compression NONE, flag bit 0 clear and size = original_size; otherwise the
\* stored bytes are the compressed bytes with compression DEFLATE, flag bit 0
\* set and size < original_size.
C28_StoredForm ==
    [][last'.op \in {"AddResource", "AddResourceDirectory"} =>
         \A i \in (Len(packer.metadataList) + 1)..Len(packer'.metadataList) :
            LET metadata == packer'.metadataList[i]
                stored == packer'.resourceDataList[i]
                source == SourceTree[packer'.processedFiles[i]].bytes
                compressed == DeflateCompress(source, packer.compressionLevel)
            IN  /\ metadata.originalSize = Len(source)
                /\ metadata.size = Len(stored)
                /\ IF packer.compressionLevel = 0 \/ compressed = <<>>
                      \/ Len(compressed) >= Len(source)
                   THEN /\ stored = source
                        /\ metadata.compressionType = NONE
                        /\ metadata.flags % 2 = 0
                        /\ metadata.size = metadata.originalSize
                   ELSE /\ stored = compressed
                        /\ metadata.compressionType = DEFLATE
                        /\ metadata.flags % 2 = 1
                        /\ metadata.size < metadata.originalSize
      ]_vars

\* at level 9 the packer holds "a.py" compressed (three bytes for four, flag
\* set) and "b.png" as it is (its compressed form is longer)
C28_Witness ==
    /\ last.op = "AddResource"
    /\ last.res = "true"
    /\ packer.compressionLevel = 9
    /\ packer.processedFiles = <<SrcA, SrcB>>
    /\ packer.metadataList[1].compressionType = DEFLATE
    /\ packer.metadataList[1].flags = 1
    /\ packer.metadataList[1].size = 3
    /\ packer.metadataList[1].originalSize = 4
    /\ packer.metadataList[2].compressionType = NONE
    /\ packer.metadataList[2].flags = 0
    /\ packer.resourceDataList[2] = SourceTree[SrcB].bytes

\* C29: pack() fails without creating, truncating or modifying the output
\* file when no resource has been added, when no output path is set, or when
\* overwrite is false and the output path exists.
C29_PackRefuses ==
    [][(/\ last'.op = "Pack"
        /\ \/ packer.metadataList = <<>>
           \/ packer.outputPath = ""
           \/ (~packer.overwrite /\ fs[packer.outputPath].exists))
       => /\ last'.res = "false"
          /\ fs' = fs
          /\ packer'.metadataList = packer.metadataList
          /\ packer'.totalSize = packer.totalSize
      ]_vars

\* a pack() has been refused because the file a first pack() wrote exists and
\* overwrite is off: the file is the one the first pack() left
C29_Witness ==
    /\ last.op = "Pack"
    /\ last.res = "false"
    /\ packer.metadataList # <<>>
    /\ packer.outputPath = "p1"
    /\ ~packer.overwrite
    /\ fs["p1"].exists
    /\ fs["p1"].resourceCount = 1
    /\ fs["p1"].totalSize = packer.totalSize
    /\ Len(packer.metadataList) = 2

\* C30: the id mount assigns to a record is canonical FNV-1a-32 of the
\* record's name (offset basis 2166136261, prime 16777619, modulo 2^32, one
\* unsigned byte XORed per step), also for names with bytes >= 0x80.
C30_IdIsFnv1a32 ==
    \A id \in DOMAIN m_resources :
        id = FnvFold(U32(FnvOffsetHi, FnvOffsetLo), m_resources[id].metadata.name, FALSE)

\* C24: in every package a successful pack() wrote, header.checksum is the
\* CRC32 (polynomial 0xEDB88320, initial 0xFFFFFFFF, final complement) of all
\* the bytes of the file after the header as finally written, the metadata
\* table with the real offsets included, and header.totalSize is the length
\* of the file.
C24_ChecksumAndTotalSize ==
    (last.op = "Pack" /\ last.res = "true") =>
         LET file == fs[last.path]
             afterHeader ==
                 Flatten([i \in 1..Len(file.records) |->
                            SerializeMetadata(file.records[i],
                                ReadAt(file, file.records[i].offset,
                                       file.records[i].size).bytes)])
                 \o file.payload
         IN  /\ file.checksum = CalculateChecksum(afterHeader)
             /\ file.totalSize = SizeofHeader + Len(afterHeader)
             /\ \A i \in 1..Len(file.records) :
                    file.records[i].offset >= DataStart(Len(file.records))

\* a successful pack() has written "a" (DEFLATE, three bytes at 744) and "b"
\* (one byte at 747): 748 bytes, whose 692 bytes after the header have the
\* CRC32 0x55B1C6F7
C24_Witness ==
    /\ last.op = "Pack"
    /\ last.res = "true"
    /\ packer.processedFiles = <<SrcA, SrcB>>
    /\ fs["p1"].records[1].compressionType = DEFLATE
    /\ fs["p1"].records[1].offset = 744
    /\ fs["p1"].records[2].offset = 747
    /\ fs["p1"].payload = <<4, 7, 0, 9>>
    /\ fs["p1"].totalSize = 748
    /\ fs["p1"].checksum = U32(21937, 50935)

\* C31: pack, mount, load, get is a round trip on the payload bytes: for each
\* file a successful Pack() stored, at either compression level, an
\* initialized manager mounts the package, loads the resource by its name and
\* stored type, and get(id) then gives the bytes of the source file, with
\* length original_size, whether the record is stored raw or with DEFLATE.
C31_RoundTrip ==
    (last.op = "Pack" /\ last.res = "true") =>
        \A i \in 1..Len(packer.metadataList) :
            LET md == packer.metadataList[i]
                mounted == LoadResourcePackage([EmptyMgr EXCEPT !.initialized = TRUE],
                                               FALSE, packer.outputPath)
                loaded == LoadResource(mounted, FALSE, md.name, md.type, NoUB)
                got == GetResource(loaded, FALSE, loaded.retId)
            IN  /\ mounted.ret = "true"
                /\ loaded.ret = "id"
                /\ got.ret = "pointer"
                /\ got.resources[loaded.retId].bytes = SourceTree[packer.processedFiles[i]].bytes
                /\ got.resources[loaded.retId].dataSize = md.originalSize
                /\ md.originalSize = Len(SourceTree[packer.processedFiles[i]].bytes)

\* C32: unmount_all terminates and applies unmount to every mounted package:
\* afterwards package_to_ids is empty, no item with ref_count 0 that a package
\* listed remains in resources, and every retained item is UNLOADED with no
\* payload.
C32_UnmountAll ==
    [][(last'.op = "UnloadAllResourcePackages")
       => /\ last'.res = "void"
          /\ proc' = "running"
          /\ mutex' = "free"
          /\ m_packageToResourcesMap' = EmptyMap
          /\ \A p \in DOMAIN m_packageToResourcesMap :
                \A id \in Range(m_packageToResourcesMap[p]) :
                    id \in DOMAIN m_resources' =>
                        /\ m_resources[id].referenceCount > 0
                        /\ m_resources'[id].status = "UNLOADED"
                        /\ m_resources'[id].ptr = "null"
      ]_vars

\* C33: unload_unused frees the payload of exactly the items with ref_count 0
\* and status LOADED, sets them UNLOADED and reduces total_memory by their
\* sizes; it removes no item and no name mapping, and leaves every other item
\* (status, payload, ref_count) as it was. Stated of the calls that return.
C33_UnloadUnused ==
    [][(last'.op = "UnloadUnusedResources" /\ last'.res = "void")
       => LET Unused == {id \in DOMAIN m_resources :
                            /\ m_resources[id].referenceCount = 0
                            /\ m_resources[id].status = "LOADED"}
          IN  /\ proc' = "running"
              /\ mutex' = "free"
              /\ DOMAIN m_resources' = DOMAIN m_resources
              /\ m_nameToIdMap' = m_nameToIdMap
              /\ m_packageToResourcesMap' = m_packageToResourcesMap
              /\ \A id \in Unused :
                    m_resources'[id] = [m_resources[id] EXCEPT !.status = "UNLOADED",
                                                               !.ptr = "null",
                                                               !.bytes = <<>>]
              /\ \A id \in DOMAIN m_resources \ Unused :
                    m_resources'[id] = m_resources[id]
              /\ m_totalMemoryUsage' =
                    m_totalMemoryUsage - SumLoadedSizes(m_resources, Unused)
      ]_vars

\* unload_unused has just freed "a", which was LOADED with ref_count 0
C33_Witness ==
    /\ last.op = "UnloadUnusedResources"
    /\ last.res = "void"
    /\ IdA \in DOMAIN m_resources
    /\ m_resources[IdA].status = "UNLOADED"
    /\ m_resources[IdA].ptr = "null"
    /\ m_resources[IdA].dataSize > 0
    /\ m_totalMemoryUsage = 0
    /\ m_nameToIdMap[NameA] = IdA

\* C34: mounting a package path that is already mounted does not disturb its
\* registration: package_to_ids[path] still lists every id the package
\* contributed.
C34_RemountKeepsList ==
    [][(/\ last'.op = "LoadResourcePackage"
        /\ last'.res = "true"
        /\ last'.path \in DOMAIN m_packageToResourcesMap)
       => /\ last'.path \in DOMAIN m_packageToResourcesMap'
          /\ Range(m_packageToResourcesMap[last'.path])
                \subseteq Range(m_packageToResourcesMap'[last'.path])
      ]_vars

\* C35: after any sequence of manager operations name_to_id and resources are
\* consistent: every (name, id) of name_to_id has id in resources with that
\* metadata name, every item of resources has its metadata name mapped to its
\* id, and every id listed in package_to_ids is in resources.
C35_MapsConsistent ==
    /\ \A name \in DOMAIN m_nameToIdMap :
          /\ m_nameToIdMap[name] \in DOMAIN m_resources
          /\ m_resources[m_nameToIdMap[name]].metadata.name = name
    /\ \A id \in DOMAIN m_resources :
          /\ m_resources[id].metadata.name \in DOMAIN m_nameToIdMap
          /\ m_nameToIdMap[m_resources[id].metadata.name] = id
    /\ \A p \in DOMAIN m_packageToResourcesMap :
          Range(m_packageToResourcesMap[p]) \subseteq DOMAIN m_resources

\* "a" and "b" are registered under their names by the packages p1 and p2,
\* after an unmount of p1 had erased "a" and its name
C35_Witness ==
    /\ last.op = "LoadResourcePackage"
    /\ last.path = "p1"
    /\ last.res = "true"
    /\ m_nameToIdMap = (NameA :> IdA) @@ (NameB :> IdB)
    /\ DOMAIN m_resources = {IdA, IdB}
    /\ m_packageToResourcesMap = [p \in Paths |-> IF p = "p1" THEN <<IdA>> ELSE <<IdB>>]
    /\ m_resources[IdB].referenceCount > 0

\* C36: whenever the manager mutex is free, each item's status is UNLOADED or
\* LOADED (never LOADING, FAILED or UNLOADING), and its payload pointer is
\* non-null exactly when its status is LOADED.
C36_StatusAndPayload ==
    mutex = "free" =>
        \A id \in DOMAIN m_resources :
            /\ m_resources[id].status \in {"UNLOADED", "LOADED"}
            /\ (m_resources[id].ptr # "null") <=> (m_resources[id].status = "LOADED")

\* a reload of "a" has failed while a caller held a reference: the call has
\* returned, the mutex is free, and the item is UNLOADED with a null pointer
C36_Witness ==
    /\ last.op = "ReloadResource"
    /\ last.res = "false"
    /\ mutex = "free"
    /\ proc = "running"
    /\ IdA \in DOMAIN m_resources
    /\ m_resources[IdA].referenceCount = 1
    /\ m_resources[IdA].status = "UNLOADED"
    /\ m_resources[IdA].ptr = "null"
    /\ m_resources[IdA].bytes = <<>>
    /\ m_packageToResourcesMap = [p \in OnePath |-> <<IdA>>]

\* C37: once Stop() has been called on a started server, every fair schedule
\* of the main, server, accept and client threads brings the server thread
\* and the accept thread to their end, and Join() returns.
C37_StopTerminates ==
    (server.main = "notify")
        ~> (server.main = "joined" /\ server.m_serverThread = "joined"
                                   /\ server.acceptThread = "joined")

\* C38: a client connection is torn down once: its thread is joined at most
\* once and its socket closed at most once, and a connection that has been
\* destroyed, by Stop() or by the pruning of the accept loop, has had exactly
\* one join and one close.
C38_TornDownOnce ==
    \A c \in 1..MaxClients :
        /\ server.conn[c].joins <= 1
        /\ server.conn[c].closes <= 1
        /\ server.conn[c].m_thread = "joined" =>
              server.conn[c].joins = 1 /\ server.conn[c].closes = 1

\* C39: the messages a connected client has written are handled once each and
\* in the order written, however read() cuts the bytes: the ids answered are
\* always increasing and among those written, and once every byte has been
\* read and nothing is left to handle, they are all the ids written.
C39_EachMessageHandledOnce ==
    \A c \in 1..MaxClients :
        LET k == server.conn[c]
        IN  /\ \A i \in 1..Len(k.handled) : k.handled[i] \in 1..k.sent
            /\ \A i \in 1..(Len(k.handled) - 1) : k.handled[i] < k.handled[i + 1]
            /\ (/\ k.peer = "open"
                /\ k.m_connected
                /\ k.m_thread \in {"test", "read"}
                /\ k.wire = <<>>
                /\ k.buffer = <<>>) => k.handled = [i \in 1..k.sent |-> i]

=============================================================================
